---- MODULE Spec2Model ----
(***************************************************************************)
(* Giveaway lifecycle engine of discord-giveaways: the GiveawaysManager    *)
(* (collection, storage file, scheduler ticks, start/edit/end/reroll/     *)
(* delete) and the Giveaway entity (edit/end/reroll/fetchMessage).         *)
(*                                                                         *)
(* JavaScript runs one callback at a time: every action below is the run   *)
(* of one callback from the point where it is resumed to its next await.   *)
(* An operation suspended on an await is an element of the bag `tasks`.    *)
(* Time is counted in seconds (1 unit = 1000 ms).                          *)
(***************************************************************************)
EXTENDS Integers, Sequences, FiniteSets, Bags, TLC

VARIABLES
    ready,          \* manager.ready
    initPc,         \* position of the manager's _init()
    clientReady,    \* client.readyAt is set
    giveaways,      \* manager.giveaways: sequence of entity keys
    gw,             \* the Giveaway entities, keyed by their message id
    storage,        \* the storage file
    writes,         \* contents of the writeFile calls in flight that nobody awaits
    tasks,          \* suspended asynchronous operations
    now,            \* Date.now()
    chan,           \* chan[g]: the channel of g is in the client's cache
    msg,            \* msg[g]: the announcement message exists on the platform
    shown,          \* shown[g]: what the last edit of the announcement shows
    ops,            \* number of operations begun so far
    lastResult,     \* what an observer saw last: how an API call settled, or an entry signal
    endPasses,      \* endPasses[g]: invocations of end() that passed its guards
    endRolls,       \* endRolls[g]: winner selections run by end()
    endedEmits,     \* endedEmits[g]: 'giveawayEnded' signals emitted
    reactors,       \* reactors[u]: what the platform knows of user u and the reaction
    policy,         \* the options that govern eligibility
    rolled,         \* the last winner selection: who asked, for how many, its outcome
    resolved,       \* the value the last end() or reroll() resolved with
    congrats,       \* congrats[g]: congratulation messages end() posted for g
    chance          \* the last value of winningChance()

vars == <<ready, initPc, clientReady, giveaways, gw, storage, writes, tasks, now,
          chan, msg, shown, ops, lastResult, endPasses, endRolls, endedEmits,
          reactors, policy, rolled, resolved, congrats, chance>>

\* the reaction, the eligibility options and what selection last produced
sel == <<reactors, policy, rolled, resolved, congrats, chance>>

---------------------------------------------------------------------------
(* Bounds of the model *)

MaxTime == 4        \* the clock runs from 0 to MaxTime
MaxTasks == 3       \* suspended operations at any one time
MaxOps == 2         \* operations begun in a run: API calls, ticks that act, reaction events
Duration == 4       \* the positive `time` a start call may ask for
MaxFaults == 1      \* messages deleted and channels lost in a run
MaxActive == 1      \* giveaways that are not ended at any one time
MaxLinks == 3       \* invite links of a server requirement

(* Program constants *)

FinalCountdown == 4     \* remainingTime < 4000 ms enters the final countdown
WaitStep == 1           \* wait(1000) between two steps of the animation
UpdateCountdownEvery == 5   \* options.updateCountdownEvery, in seconds

IDs == {"m1", "m2"}         \* message ids the platform hands out
NIL == "nil"

---------------------------------------------------------------------------
(* JavaScript values an option may hold *)

Undefined == [t |-> "undefined", n |-> 0]
NonNumeric == [t |-> "string", n |-> 0]
Num(n) == [t |-> "number", n |-> n]

\* !v
Falsy(v) == v.t = "undefined" \/ (v.t = "number" /\ v.n = 0)
\* isNaN(v)
IsNaN(v) == v.t \in {"undefined", "string"}

\* the options of the start calls: a valid one, and the same with one field replaced
ValidStart == [channelOk |-> TRUE, time |-> Num(Duration), prize |-> "p1",
               winnerCount |-> Num(1)]
StartOptions ==
    {ValidStart, [ValidStart EXCEPT !.channelOk = FALSE], [ValidStart EXCEPT !.prize = ""]}
    \cup {[ValidStart EXCEPT !.time = v] : v \in {Undefined, NonNumeric, Num(0), Num(-1)}}
    \cup {[ValidStart EXCEPT !.winnerCount = v] : v \in {Undefined, NonNumeric, Num(0), Num(-1)}}

Min(a, b) == IF a < b THEN a ELSE b
Cap(n) == Min(n + 1, 2)

---------------------------------------------------------------------------
(* The Giveaway entity *)

\* new Giveaway(manager, options)
Giveaway(options) ==
    [created |-> TRUE,
     messageID |-> options.messageID,
     startAt |-> options.startAt,
     endAt |-> options.endAt,
     ended |-> options.ended,
     winnerCount |-> options.winnerCount,
     prize |-> options.prize,
     message |-> FALSE,
     threeSecondsRemaining |-> FALSE,
     threeSecondsRemaining2 |-> FALSE,
     serverlink |-> options.serverlink,
     serverslist |-> options.serverslist,
     optServerslist |-> options.serverslist,
     exemptMembers |-> options.exemptMembers]

NoGiveaway ==
    [created |-> FALSE, messageID |-> NIL, startAt |-> 0, endAt |-> 0,
     ended |-> FALSE, winnerCount |-> 0, prize |-> "", message |-> FALSE,
     threeSecondsRemaining |-> FALSE, threeSecondsRemaining2 |-> FALSE,
     serverlink |-> 0, serverslist |-> "", optServerslist |-> "",
     exemptMembers |-> "undefined"]

\* get data(): the persisted view of an entity
data(e) ==
    [messageID |-> e.messageID,
     startAt |-> e.startAt,
     endAt |-> e.endAt,
     ended |-> e.ended,
     winnerCount |-> e.winnerCount,
     prize |-> e.prize,
     serverlink |-> e.serverlink,
     serverslist |-> e.optServerslist,
     exemptMembers |-> e.exemptMembers]

\* get remainingTime()
remainingTime(e) == e.endAt - now

\* this.giveaways.find((g) => g.messageID === messageID)
InCollection(g) == \E i \in 1..Len(giveaways) : giveaways[i] = g

\* this.giveaways.filter((g) => g.messageID !== messageID)
Without(coll, g) == SelectSeq(coll, LAMBDA x : x # g)

\* JSON.stringify(this.giveaways.map((giveaway) => giveaway.data)): a property
\* whose value is a function is left out of the text, and reads back as undefined
Snapshot(coll, ents) ==
    [i \in 1..Len(coll) |-> [data(ents[coll[i]]) EXCEPT !.exemptMembers = "undefined"]]

---------------------------------------------------------------------------
(* Suspended operations *)

NoOpts == [newWinnerCount |-> 0, newPrize |-> "", addTime |-> 0, setEndTimestamp |-> 0]

\* kind: the operation; pc: the await it is suspended on; opts: the options of
\* an edit; wake: when a timer is due; n: the step of the final countdown;
\* content: what an awaited writeFile is writing; api: the API call that the
\* operation settles ("none" for scheduler work)
Task(kind, g, pc, api) ==
    [kind |-> kind, g |-> g, pc |-> pc, opts |-> NoOpts, wake |-> 0, n |-> 0,
     content |-> <<>>, api |-> api]

Suspended == BagToSet(tasks)
Room == BagCardinality(tasks) < MaxTasks
Spawn(bag, t) == bag (+) SetToBag({t})
Retire(bag, t) == bag (-) SetToBag({t})
Move(bag, t, u) == Spawn(Retire(bag, t), u)

Result(op, g, res) == [op |-> op, g |-> g, res |-> res]

---------------------------------------------------------------------------
(* Eligibility and winner selection: Giveaway.roll() and what it reads *)

MaxWinners == 2

Self == "me"                        \* this.message.client.user
Users == {"u1", "u2", Self}

\* what roll() reads of a user: reacted - the user is among the users of the
\* giveaway's reaction; bot - user.bot; member - guild.member(user.id) resolves;
\* exempt - what the exemption predicate does with the member: returns true
\* ("yes"), returns false ("no") or fails ("throws"); perm - the member holds
\* one of exemptPermissions
Reactor(reacted, bot, member, exempt, perm) ==
    [reacted |-> reacted, bot |-> bot, member |-> member, exempt |-> exempt, perm |-> perm]

\* the bot reacts to its own announcement
OwnReaction == Reactor(TRUE, TRUE, TRUE, "no", FALSE)

\* the reactions considered: "u1" in every combination, "u2" a member who
\* reacted and holds no exempt permission
Reactions ==
    {rs \in [Users -> {Reactor(r, b, m, x, p) :
                         r \in BOOLEAN, b \in BOOLEAN, m \in BOOLEAN,
                         x \in {"yes", "no", "throws"}, p \in BOOLEAN}] :
       /\ rs[Self] = OwnReaction
       /\ rs["u2"].reacted /\ rs["u2"].member /\ ~rs["u2"].perm}

\* botsCanWin: the value of get botsCanWin(); exemptMembers: where a predicate
\* is supplied: on the record ("record"), on the manager's defaults only
\* ("default"), or nowhere ("none")
Policies == [botsCanWin : BOOLEAN, exemptMembers : {"record", "default", "none"}]

NoReactions == [u \in Users |-> IF u = Self THEN OwnReaction
                                ELSE Reactor(FALSE, FALSE, TRUE, "no", FALSE)]
NoPolicy == [botsCanWin |-> FALSE, exemptMembers |-> "none"]
NotRolled == [by |-> "none", n |-> 0, status |-> "none", winners |-> <<>>]
NotResolved == [by |-> "none", t |-> "none", members |-> <<>>]
NoChance == [num |-> 0, den |-> 0]

\* async exemptMembers(member) of a giveaway of the collection, whose options
\* are the plain options object
exemptMembers(pol, r) ==
    IF pol.exemptMembers = "record"
    THEN IF r.exempt = "throws" THEN "no" ELSE r.exempt
    ELSE IF pol.exemptMembers = "default" THEN r.exempt
    ELSE "no"

\* async exemptMembers(member) of the copy manager.reroll() makes: its options
\* are the giveaway of the collection, so this.options.exemptMembers is that
\* giveaway's exemptMembers method, called inside the try
exemptMembersOfCopy(pol, r) ==
    IF exemptMembers(pol, r) = "throws" THEN "no" ELSE exemptMembers(pol, r)

\* the filters without the one on the bot's own identity
candidatesWithSelf(rs, pol) ==
    {u \in Users : /\ rs[u].reacted
                   /\ rs[u].bot = pol.botsCanWin
                   /\ rs[u].member}

\* the three filters on the users of the reaction
candidates(rs, pol) ==
    {u \in Users : /\ rs[u].reacted
                   /\ rs[u].bot = pol.botsCanWin
                   /\ u # Self
                   /\ rs[u].member}

\* the loop that deletes the exempt users, then the filter on exemptPermissions
eligible(rs, pol, copy) ==
    {u \in candidates(rs, pol) :
       /\ (IF copy THEN exemptMembersOfCopy(pol, rs[u]) ELSE exemptMembers(pol, rs[u])) # "yes"
       /\ ~rs[u].perm}

\* amount picks, each from the whole collection
randomRepeating(S, amount) ==
    IF amount = 0 \/ S = {} THEN {<<>>} ELSE [1..amount -> S]

\* Collection.random(amount) followed by .filter(u => u): amount times, one
\* element is spliced out of a copy of the collection; a pick from the emptied
\* copy is undefined and the filter drops it
RECURSIVE random(_, _)
random(S, amount) ==
    IF amount = 0 \/ S = {} THEN {<<>>}
    ELSE UNION {{<<u>> \o w : w \in random(S \ {u}, amount - 1)} : u \in S}

\* roll(winnerCount) sampling from the candidates before the exemptions
rollCandidates(rs, pol, own, n, copy) ==
    {[status |-> "returned", winners |-> w] :
       w \in random(candidates(rs, pol), IF n = 0 THEN own ELSE n)}

\* roll(winnerCount): the outcomes it can have. n = 0 stands for an undefined
\* winnerCount argument
roll(rs, pol, own, n, copy) ==
    IF \A u \in Users : ~rs[u].reacted
    THEN {[status |-> "returned", winners |-> <<>>]}
    ELSE IF \E u \in candidates(rs, pol) : ~copy /\ exemptMembers(pol, rs[u]) = "throws"
    THEN {[status |-> "rejected", winners |-> <<>>]}
    ELSE {[status |-> "returned", winners |-> w] :
            w \in random(eligible(rs, pol, copy), IF n = 0 THEN own ELSE n)}

---------------------------------------------------------------------------
(* The storage file *)

Absent == [state |-> "absent", docs |-> <<>>]
Stored(docs) == [state |-> "ok", docs |-> docs]
\* a file that is not the JSON text of an array
Malformed == [state |-> "malformed", docs |-> <<>>]

InitialRecord ==
    [messageID |-> "m1", startAt |-> 0, endAt |-> Duration, ended |-> FALSE,
     winnerCount |-> 1, prize |-> "p1", serverlink |-> 1, serverslist |-> <<>>,
     exemptMembers |-> "undefined"]

\* the record of a giveaway that ended in an earlier run of the program
EndedRecord == [InitialRecord EXCEPT !.endAt = 0, !.ended = TRUE]

Init ==
    /\ ready = FALSE
    /\ initPc = "exists"
    /\ clientReady = FALSE
    /\ giveaways = <<>>
    /\ gw = [g \in IDs |-> NoGiveaway]
    /\ storage \in {Absent, Malformed, Stored(<<>>), Stored(<<InitialRecord>>),
                    Stored(<<EndedRecord>>)}
    /\ writes = {}
    /\ tasks = EmptyBag
    /\ now = 0
    /\ chan = [g \in IDs |-> TRUE]
    /\ msg = [g \in IDs |-> (storage.state = "ok" /\ Len(storage.docs) > 0 /\ g = "m1")]
    /\ shown = [g \in IDs |-> IF ~msg[g] THEN "none"
                              ELSE IF storage.docs[1].ended THEN "ended" ELSE "giveaway"]
    /\ ops = 0
    /\ lastResult = Result("none", NIL, "none")
    /\ endPasses = [g \in IDs |-> 0]
    /\ endRolls = [g \in IDs |-> 0]
    /\ endedEmits = [g \in IDs |-> 0]
    /\ reactors = NoReactions
    /\ policy = NoPolicy
    /\ rolled = NotRolled
    /\ resolved = NotResolved
    /\ congrats = [g \in IDs |-> 0]
    /\ chance = NoChance

---------------------------------------------------------------------------
(* Giveaway.fetchMessage(), at the moment the platform answers.  A message   *)
(* that is gone prunes the giveaway from the collection and rewrites the     *)
(* storage file without awaiting the write.                                  *)

\* this.manager.giveaways after fetchMessage() has settled
fetchedCollection(g) == IF msg[g] THEN giveaways ELSE Without(giveaways, g)

\* this.message = message
fetchedEntity(e, found) == IF found THEN [e EXCEPT !.message = TRUE] ELSE e

\* the entities after fetchMessage() of entity g has settled
fetchedGw(g) == [gw EXCEPT ![g] = fetchedEntity(@, msg[g])]

\* this.manager.deleteGiveaway(this.messageID), not awaited
fetchedWrites(g) ==
    IF msg[g] THEN writes
    ELSE writes \cup {Snapshot(fetchedCollection(g), gw)}

---------------------------------------------------------------------------
(* Giveaway.end(), called through GiveawaysManager.end(messageID)            *)

\* the guards without the one on `ended`
endOutcomeUnguarded(ents, g) ==
    IF ~InCollection(g) THEN "NotFound"
    ELSE IF ~chan[g] THEN "ChannelUnavailable"
    ELSE "pass"

\* an end() that would set `ended` only once it has the message
endGuardLate(e) == e

\* an end() that would take `ended` back when the message cannot be fetched
endFetchRollback(e) == [e EXCEPT !.ended = FALSE]

\* the guards of Manager.end and Giveaway.end
endOutcome(ents, g) ==
    IF ~InCollection(g) THEN "NotFound"
    ELSE IF ents[g].ended THEN "AlreadyEnded"
    ELSE IF ~chan[g] THEN "ChannelUnavailable"
    ELSE "pass"

\* this.ended = true, before the message is fetched
endGuardPassed(e) == [e EXCEPT !.ended = TRUE]

\* the rejection of end() when the message cannot be fetched leaves the entity as it is
endFetchFailed(e) == e

\* The synchronous part of manager.end(g) on the effects S = [gw, tasks, endPasses, res]
\* gathered so far in the running callback
ManagerEnd(S, g, api) ==
    LET out == endOutcome(S.gw, g) IN
    IF out = "pass"
    THEN [gw |-> [S.gw EXCEPT ![g] = endGuardPassed(@)],
          tasks |-> IF S.gw[g].messageID = NIL THEN S.tasks
                    ELSE Spawn(S.tasks, Task("end", g, "fetch", api)),
          endPasses |-> [S.endPasses EXCEPT ![g] = Cap(@)],
          res |-> "pending"]
    ELSE [S EXCEPT !.res = out]

Effects == [gw |-> gw, tasks |-> tasks, endPasses |-> endPasses, res |-> "none"]
Fits(S) == BagCardinality(S.tasks) <= MaxTasks

\* the result an API call sees when the operation it returned settles; an end()
\* called by the scheduler or awaited inside start() settles no API call
Settled(api, g, res) ==
    IF api \in {"none", "start", "startS"} THEN lastResult ELSE Result(api, g, res)

---------------------------------------------------------------------------
(* The environment *)

\* the clock advances
Tick ==
    /\ now < MaxTime
    /\ now' = now + 1
    /\ UNCHANGED <<sel, ready, initPc, clientReady, giveaways, gw, storage, writes, tasks,
                   chan, msg, shown, ops, lastResult, endPasses, endRolls, endedEmits>>

\* the client connects: client.readyAt is set
ClientReady ==
    /\ ~clientReady
    /\ clientReady' = TRUE
    /\ UNCHANGED <<sel, ready, initPc, giveaways, gw, storage, writes, tasks, now,
                   chan, msg, shown, ops, lastResult, endPasses, endRolls, endedEmits>>

\* the faults that have happened
Faults == Cardinality({g \in IDs : gw[g].created /\ gw[g].messageID # NIL /\ ~msg[g]})
          + Cardinality({g \in IDs : ~chan[g]})

\* somebody deletes the announcement message on the platform
MessageDeleted(g) ==
    /\ msg[g]
    /\ Faults < MaxFaults
    /\ msg' = [msg EXCEPT ![g] = FALSE]
    /\ UNCHANGED <<sel, ready, initPc, clientReady, giveaways, gw, storage, writes, tasks, now,
                   chan, shown, ops, lastResult, endPasses, endRolls, endedEmits>>

\* the channel of g leaves the client's cache
ChannelLost(g) ==
    /\ gw[g].created /\ chan[g]
    /\ Faults < MaxFaults
    /\ chan' = [chan EXCEPT ![g] = FALSE]
    /\ UNCHANGED <<sel, ready, initPc, clientReady, giveaways, gw, storage, writes, tasks, now,
                   msg, shown, ops, lastResult, endPasses, endRolls, endedEmits>>

\* an un-awaited writeFile completes
WriteComplete(w) ==
    /\ w \in writes
    /\ storage' = Stored(w)
    /\ writes' = writes \ {w}
    /\ UNCHANGED <<sel, ready, initPc, clientReady, giveaways, gw, tasks, now,
                   chan, msg, shown, ops, lastResult, endPasses, endRolls, endedEmits>>

---------------------------------------------------------------------------
(* GiveawaysManager._init() *)

\* await existsAsync(storage): a missing file is created as '[]'
InitExists ==
    /\ initPc = "exists"
    /\ initPc' = IF storage.state = "absent" THEN "create" ELSE "read"
    /\ UNCHANGED <<sel, ready, clientReady, giveaways, gw, storage, writes, tasks, now,
                   chan, msg, shown, ops, lastResult, endPasses, endRolls, endedEmits>>

\* the loops started and ready set before the records are hydrated
HydratedLoopsFirst(rawGiveaways) ==
    /\ initPc' = "done"
    /\ ready' = TRUE
    /\ UNCHANGED <<giveaways, gw>>

\* what _init() does once getAllGiveaways() has returned rawGiveaways:
\* hydrate every record, start the three loops, set ready
Hydrated(rawGiveaways) ==
    /\ giveaways' = [i \in 1..Len(rawGiveaways) |-> rawGiveaways[i].messageID]
    /\ gw' = [g \in IDs |->
                IF \E i \in 1..Len(rawGiveaways) : rawGiveaways[i].messageID = g
                THEN Giveaway(CHOOSE r \in {rawGiveaways[i] : i \in 1..Len(rawGiveaways)} :
                                 r.messageID = g)
                ELSE gw[g]]
    /\ ready' = TRUE
    /\ initPc' = "done"

\* await writeFileAsync(storage, '[]'), then the rest of _init()
InitCreated ==
    /\ initPc = "create"
    /\ storage' = Stored(<<>>)
    /\ Hydrated(<<>>)
    /\ UNCHANGED <<sel, clientReady, writes, tasks, now,
                   chan, msg, shown, ops, lastResult, endPasses, endRolls, endedEmits>>

\* await readFileAsync(storage), JSON.parse, then the rest of _init()
InitRead ==
    /\ initPc = "read"
    /\ storage.state = "ok"
    /\ Hydrated(storage.docs)
    /\ UNCHANGED <<sel, clientReady, storage, writes, tasks, now,
                   chan, msg, shown, ops, lastResult, endPasses, endRolls, endedEmits>>

---------------------------------------------------------------------------
(* Giveaway.end(): the steps after its guards *)

\* a malformed file read as if it held no giveaway
InitFailedAsEmpty ==
    /\ initPc = "read"
    /\ storage.state = "malformed"
    /\ Hydrated(<<>>)
    /\ UNCHANGED <<sel, clientReady, storage, writes, tasks, now,
                   chan, msg, shown, ops, lastResult, endPasses, endRolls, endedEmits>>

\* JSON.parse throws, or the text is not an array: getAllGiveaways() throws and
\* _init() ends there, its rejection unhandled
InitFailed ==
    /\ initPc = "read"
    /\ storage.state = "malformed"
    /\ initPc' = "failed"
    /\ UNCHANGED <<sel, ready, clientReady, giveaways, gw, storage, writes, tasks, now,
                   chan, msg, shown, ops, lastResult, endPasses, endRolls, endedEmits>>

mgr == <<ready, initPc, clientReady>>
counters == <<endPasses, endRolls, endedEmits>>

\* a start() call awaiting this end() never continues once the end() hangs
Abandon(bag, t) ==
    LET waiting == {u \in BagToSet(bag) : /\ u.kind = "start" /\ u.g = t.g
                                          /\ \/ t.api = "start" /\ u.pc = "uEnd"
                                             \/ t.api = "startS" /\ u.pc = "sEnd"}
    IN  IF waiting = {} THEN bag ELSE Retire(bag, CHOOSE u \in waiting : TRUE)

\* await this.fetchMessage().catch(() => {}); if (!this.message) return reject(...)
EndFetched(t) ==
    /\ t \in Suspended /\ t.kind = "end" /\ t.pc = "fetch"
    /\ LET e == fetchedEntity(gw[t.g], msg[t.g]) IN
       /\ giveaways' = fetchedCollection(t.g)
       /\ writes' = fetchedWrites(t.g)
       /\ IF e.message
          THEN /\ gw' = [gw EXCEPT ![t.g] = e]
               /\ tasks' = Move(tasks, t, [t EXCEPT !.pc = "roll"])
               /\ UNCHANGED lastResult
          ELSE /\ gw' = [gw EXCEPT ![t.g] = endFetchFailed(e)]
               /\ tasks' = Retire(tasks, t)
               /\ lastResult' = Settled(t.api, t.g, "MessageNotFound")
    /\ UNCHANGED <<sel, mgr, storage, now, chan, msg, shown, ops, counters>>

\* what end() shows on the announcement: the winners, or messages.noWinner
endEmbed(winners) == IF winners > 0 THEN "ended" ELSE "noWinner"

\* let winners = await this.roll(); let entries = await this.ValidEntry();
\* emit 'giveawayEnded', write the storage without awaiting it, then with winners
\* edit the announcement, send the congratulation and resolve
EndRolled(t, winners) ==
    /\ t \in Suspended /\ t.kind = "end" /\ t.pc = "roll"
    /\ endRolls' = [endRolls EXCEPT ![t.g] = Cap(@)]
    /\ endedEmits' = [endedEmits EXCEPT ![t.g] = Cap(@)]
    /\ writes' = writes \cup {Snapshot(giveaways, gw)}
    /\ IF winners > 0
       THEN /\ shown' = [shown EXCEPT ![t.g] = endEmbed(winners)]
            /\ tasks' = Retire(tasks, t)
            /\ lastResult' = Settled(t.api, t.g, "ok")
       ELSE /\ tasks' = Move(tasks, t, [t EXCEPT !.pc = "entries"])
            /\ UNCHANGED <<shown, lastResult>>
    /\ UNCHANGED <<mgr, giveaways, gw, storage, now, chan, msg, ops, endPasses>>

\* roll() or ValidEntry() rejects (a collaborator or the manager's default
\* exemptMembers throws): the executor of end() throws and its promise stays pending
EndThrew(t) ==
    /\ t \in Suspended /\ t.kind = "end" /\ t.pc = "roll"
    /\ endRolls' = [endRolls EXCEPT ![t.g] = Cap(@)]
    /\ tasks' = Abandon(Retire(tasks, t), t)
    /\ UNCHANGED <<mgr, giveaways, gw, storage, writes, now, chan, msg, shown, ops,
                   lastResult, endPasses, endedEmits>>

\* without winners: let entries = await this.ValidEntry(); edit the announcement; resolve()
EndNoWinner(t) ==
    /\ t \in Suspended /\ t.kind = "end" /\ t.pc = "entries"
    /\ shown' = [shown EXCEPT ![t.g] = endEmbed(0)]
    /\ tasks' = Retire(tasks, t)
    /\ lastResult' = Settled(t.api, t.g, "ok")
    /\ UNCHANGED <<mgr, giveaways, gw, storage, writes, now, chan, msg, ops, counters>>

\* manager.end(messageID), called by the user
EndCall(g) ==
    /\ ops < MaxOps
    /\ LET S == ManagerEnd(Effects, g, "end") IN
       /\ Fits(S)
       /\ gw' = S.gw /\ tasks' = S.tasks /\ endPasses' = S.endPasses
       /\ lastResult' = IF S.res = "pending" THEN lastResult ELSE Result("end", g, S.res)
    /\ ops' = ops + 1
    /\ UNCHANGED <<sel, mgr, giveaways, storage, writes, now, chan, msg, shown,
                   endRolls, endedEmits>>

---------------------------------------------------------------------------
(* Giveaway.edit(options), called through GiveawaysManager.edit *)

EditOptions ==
    {[NoOpts EXCEPT !.newWinnerCount = 2, !.newPrize = "p2"],
     [NoOpts EXCEPT !.newWinnerCount = -1],
     [NoOpts EXCEPT !.addTime = 1],
     [NoOpts EXCEPT !.addTime = -(Duration + 1)],
     [NoOpts EXCEPT !.setEndTimestamp = 1]}

\* the guards without the one on `ended`
editOutcomeUnguarded(ents, g) ==
    IF ~InCollection(g) THEN "NotFound"
    ELSE IF ~chan[g] THEN "ChannelUnavailable"
    ELSE "pass"

\* the guards of Manager.edit and Giveaway.edit
editOutcome(ents, g) ==
    IF ~InCollection(g) THEN "NotFound"
    ELSE IF ents[g].ended THEN "AlreadyEnded"
    ELSE IF ~chan[g] THEN "ChannelUnavailable"
    ELSE "pass"

\* if (options.newWinnerCount) this.winnerCount = ...; and so on
applyEdit(e, options) ==
    LET a == IF options.newWinnerCount # 0
             THEN [e EXCEPT !.winnerCount = options.newWinnerCount] ELSE e
        b == IF options.newPrize # "" THEN [a EXCEPT !.prize = options.newPrize] ELSE a
        c == IF options.addTime # 0 THEN [b EXCEPT !.endAt = @ + options.addTime] ELSE b
    IN  IF options.setEndTimestamp # 0
        THEN [c EXCEPT !.endAt = options.setEndTimestamp] ELSE c

\* manager.edit(messageID, options), called by the user
EditCall(g, options) ==
    /\ ops < MaxOps
    /\ LET out == editOutcome(gw, g) IN
       IF out = "pass"
       THEN /\ Room
            /\ tasks' = Spawn(tasks, [Task("edit", g, "fetch", "edit") EXCEPT !.opts = options])
            /\ UNCHANGED lastResult
       ELSE /\ lastResult' = Result("edit", g, out)
            /\ UNCHANGED tasks
    /\ ops' = ops + 1
    /\ UNCHANGED <<sel, mgr, giveaways, gw, storage, writes, now, chan, msg, shown, counters>>

\* await this.fetchMessage(); if (!this.message) reject; update the fields;
\* await this.manager.editGiveaway(...)
EditFetched(t) ==
    /\ t \in Suspended /\ t.kind = "edit" /\ t.pc = "fetch"
    /\ LET e == fetchedEntity(gw[t.g], msg[t.g]) IN
       /\ giveaways' = fetchedCollection(t.g)
       /\ writes' = fetchedWrites(t.g)
       /\ IF e.message
          THEN /\ gw' = [gw EXCEPT ![t.g] = applyEdit(e, t.opts)]
               /\ tasks' = Move(tasks, t, [t EXCEPT !.pc = "write",
                                                    !.content = Snapshot(giveaways', gw')])
               /\ UNCHANGED lastResult
          ELSE /\ gw' = [gw EXCEPT ![t.g] = e]
               /\ tasks' = Retire(tasks, t)
               /\ lastResult' = Result("edit", t.g, "MessageNotFound")
    /\ UNCHANGED <<sel, mgr, storage, now, chan, msg, shown, ops, counters>>

\* the awaited write completes; resolve(this)
EditWritten(t) ==
    /\ t \in Suspended /\ t.kind = "edit" /\ t.pc = "write"
    /\ storage' = Stored(t.content)
    /\ tasks' = Retire(tasks, t)
    /\ lastResult' = Result("edit", t.g, "ok")
    /\ UNCHANGED <<sel, mgr, giveaways, gw, writes, now, chan, msg, shown, ops, counters>>

---------------------------------------------------------------------------
(* Giveaway.reroll(options), called through GiveawaysManager.reroll on a    *)
(* copy of the entity: new Giveaway(this, giveawayData)                      *)

\* the guards without the one on `ended`
rerollOutcomeEarly(ents, g) ==
    IF ~InCollection(g) THEN "NotFound"
    ELSE IF ~chan[g] THEN "ChannelUnavailable"
    ELSE "pass"

\* the guards without the lookup in the collection
rerollOutcomeUnknown(ents, g) ==
    IF ~ents[g].ended THEN "NotYetEnded"
    ELSE IF ~chan[g] THEN "ChannelUnavailable"
    ELSE "pass"

\* the guards of Manager.reroll and Giveaway.reroll
rerollOutcome(ents, g) ==
    IF ~InCollection(g) THEN "NotFound"
    ELSE IF ~ents[g].ended THEN "NotYetEnded"
    ELSE IF ~chan[g] THEN "ChannelUnavailable"
    ELSE "pass"

\* manager.reroll(messageID, options), called by the user
RerollCall(g) ==
    /\ ops < MaxOps
    /\ LET out == rerollOutcome(gw, g) IN
       IF out = "pass"
       THEN /\ Room
            /\ tasks' = Spawn(tasks, Task("reroll", g, "fetch", "reroll"))
            /\ UNCHANGED lastResult
       ELSE /\ lastResult' = Result("reroll", g, out)
            /\ UNCHANGED tasks
    /\ ops' = ops + 1
    /\ UNCHANGED <<sel, mgr, giveaways, gw, storage, writes, now, chan, msg, shown, counters>>

\* await this.fetchMessage() on the copy, whose message starts as null
RerollFetched(t) ==
    /\ t \in Suspended /\ t.kind = "reroll" /\ t.pc = "fetch"
    /\ giveaways' = fetchedCollection(t.g)
    /\ writes' = fetchedWrites(t.g)
    /\ IF msg[t.g]
       THEN /\ tasks' = Move(tasks, t, [t EXCEPT !.pc = "roll"])
            /\ UNCHANGED lastResult
       ELSE /\ tasks' = Retire(tasks, t)
            /\ lastResult' = Result("reroll", t.g, "MessageNotFound")
    /\ UNCHANGED <<sel, mgr, gw, storage, now, chan, msg, shown, ops, counters>>

\* let winners = await this.roll(options.winnerCount); send congrat or error;
\* resolve; the manager emits 'giveawayRerolled'
RerollRolled(t) ==
    /\ t \in Suspended /\ t.kind = "reroll" /\ t.pc = "roll"
    /\ tasks' = Retire(tasks, t)
    /\ lastResult' = Result("reroll", t.g, "ok")
    /\ UNCHANGED <<mgr, giveaways, gw, storage, writes, now, chan, msg, shown, ops, counters>>

\* roll() rejects: the promise of reroll() stays pending
RerollThrew(t) ==
    /\ t \in Suspended /\ t.kind = "reroll" /\ t.pc = "roll"
    /\ tasks' = Retire(tasks, t)
    /\ UNCHANGED <<sel, mgr, giveaways, gw, storage, writes, now, chan, msg, shown, ops,
                   lastResult, counters>>

---------------------------------------------------------------------------
(* GiveawaysManager.delete(messageID, doNotDeleteMessage) *)

deleteOutcome(g) ==
    IF ~InCollection(g) THEN "NotFound"
    ELSE IF ~chan[g] THEN "ChannelUnavailable"
    ELSE "pass"

\* manager.delete(messageID, doNotDeleteMessage), called by the user
DeleteCall(g, doNotDeleteMessage) ==
    /\ ops < MaxOps
    /\ LET out == deleteOutcome(g) IN
       IF out # "pass"
       THEN /\ lastResult' = Result("delete", g, out)
            /\ UNCHANGED <<tasks, giveaways>>
       ELSE /\ Room
            /\ UNCHANGED lastResult
            /\ IF doNotDeleteMessage
               THEN /\ giveaways' = Without(giveaways, g)
                    /\ tasks' = Spawn(tasks, [Task("delete", g, "write", "delete") EXCEPT
                                                !.content = Snapshot(giveaways', gw)])
               ELSE /\ tasks' = Spawn(tasks, Task("delete", g, "fetch", "delete"))
                    /\ UNCHANGED giveaways
    /\ ops' = ops + 1
    /\ UNCHANGED <<sel, mgr, gw, storage, writes, now, chan, msg, shown, counters>>

\* await giveaway.fetchMessage().catch(() => {}); giveaway.message.delete();
\* filter the collection; await this.deleteGiveaway(messageID)
DeleteFetched(t) ==
    /\ t \in Suspended /\ t.kind = "delete" /\ t.pc = "fetch"
    /\ LET e == fetchedEntity(gw[t.g], msg[t.g]) IN
       /\ gw' = [gw EXCEPT ![t.g] = e]
       /\ msg' = IF e.message THEN [msg EXCEPT ![t.g] = FALSE] ELSE msg
       /\ giveaways' = Without(giveaways, t.g)
       /\ writes' = fetchedWrites(t.g)
       /\ tasks' = Move(tasks, t, [t EXCEPT !.pc = "write",
                                            !.content = Snapshot(giveaways', gw')])
    /\ UNCHANGED <<sel, mgr, storage, now, chan, shown, ops, lastResult, counters>>

\* the awaited write completes; resolve()
DeleteWritten(t) ==
    /\ t \in Suspended /\ t.kind = "delete" /\ t.pc = "write"
    /\ storage' = Stored(t.content)
    /\ tasks' = Retire(tasks, t)
    /\ lastResult' = Result("delete", t.g, "ok")
    /\ UNCHANGED <<sel, mgr, giveaways, gw, writes, now, chan, msg, shown, ops, counters>>

---------------------------------------------------------------------------
(* GiveawaysManager.start(channel, options) *)

\* the checks without the one on this.ready
startOutcomeUnready(channelOk, time, prize, winnerCount) ==
    IF ~channelOk THEN "InvalidChannel"
    ELSE IF Falsy(time) \/ IsNaN(time) THEN "InvalidTime"
    ELSE IF prize = "" THEN "InvalidPrize"
    ELSE IF Falsy(winnerCount) \/ IsNaN(winnerCount) THEN "InvalidWinnerCount"
    ELSE "pass"

\* the checks of start(), in their order
startOutcome(channelOk, time, prize, winnerCount) ==
    IF ~ready THEN "NotReady"
    ELSE IF ~channelOk THEN "InvalidChannel"
    ELSE IF Falsy(time) \/ IsNaN(time) THEN "InvalidTime"
    ELSE IF prize = "" THEN "InvalidPrize"
    ELSE IF Falsy(winnerCount) \/ IsNaN(winnerCount) THEN "InvalidWinnerCount"
    ELSE "pass"

\* new Giveaway(this, {startAt: Date.now(), endAt: Date.now() + options.time, ...})
startGiveaway(time, prize, winnerCount) ==
    Giveaway([messageID |-> NIL, startAt |-> now, endAt |-> now + time.n,
              ended |-> FALSE, winnerCount |-> winnerCount.n, prize |-> prize,
              serverlink |-> 0, serverslist |-> <<>>, exemptMembers |-> "undefined"])

\* the ids a new message can get: Discord gives no id twice, so neither the id of
\* an Entity nor the id of a record of the storage
FreshIDs ==
    {g \in IDs : /\ ~gw[g].created
                 /\ ~\E i \in 1..Len(storage.docs) : storage.docs[i].messageID = g}

\* the key of the entity a start() creates: the id its message will get
Fresh == CHOOSE g \in FreshIDs : TRUE

\* manager.start(channel, options), called by the user
StartCall(channelOk, time, prize, winnerCount) ==
    /\ ops < MaxOps
    /\ LET out == startOutcome(channelOk, time, prize, winnerCount) IN
       IF out = "pass"
       THEN /\ Room
            /\ Cardinality({g \in IDs : gw[g].created /\ ~gw[g].ended}) < MaxActive
            /\ FreshIDs # {}
            /\ gw' = [gw EXCEPT ![Fresh] = startGiveaway(time, prize, winnerCount)]
            /\ tasks' = Spawn(tasks, Task("start", Fresh, "send", "start"))
            /\ UNCHANGED lastResult
       ELSE /\ lastResult' = Result("start", NIL, out)
            /\ UNCHANGED <<gw, tasks>>
    /\ ops' = ops + 1
    /\ UNCHANGED <<sel, mgr, giveaways, storage, writes, now, chan, msg, shown, counters>>

\* let chance = await giveaway.winningChance(); let message = await channel.send(...);
\* giveaway.messageID = message.id; this.giveaways.push(giveaway);
\* await this.saveGiveaway(...).  A send that rejects leaves start() pending for ever.
StartSent(t) ==
    /\ t \in Suspended /\ t.kind = "start" /\ t.pc = "send"
    /\ IF chan[t.g]
       THEN /\ msg' = [msg EXCEPT ![t.g] = TRUE]
            /\ shown' = [shown EXCEPT ![t.g] = "giveaway"]
            /\ gw' = [gw EXCEPT ![t.g].messageID = t.g]
            /\ giveaways' = Append(giveaways, t.g)
            /\ tasks' = Move(tasks, t, [t EXCEPT !.pc = "save",
                                                 !.content = Snapshot(giveaways', gw')])
       ELSE /\ tasks' = Retire(tasks, t)
            /\ UNCHANGED <<msg, shown, gw, giveaways>>
    /\ UNCHANGED <<sel, mgr, storage, writes, now, chan, ops, lastResult, counters>>

\* the timer _updateGiveaway() arms: setTimeout(() => this.end(...), remainingTime)
Timer(g) == [Task("timer", g, "wait", "none") EXCEPT !.wake = gw[g].endAt]

\* the end of _updateGiveaway(): edit the announcement, arm the timer when less than
\* one countdown period remains; then start() resolves
UpdateTail(t, bag) ==
    /\ shown' = [shown EXCEPT ![t.g] = "countdown"]
    /\ tasks' = IF remainingTime(gw[t.g]) < UpdateCountdownEvery
                THEN Spawn(bag, Timer(t.g)) ELSE bag
    /\ lastResult' = Result("start", t.g, "ok")

\* the awaited saveGiveaway() completes; await this._updateGiveaway(giveaway) up to
\* its first await
StartSaved(t) ==
    /\ t \in Suspended /\ t.kind = "start" /\ t.pc = "save"
    /\ storage' = Stored(t.content)
    /\ IF gw[t.g].ended \/ ~chan[t.g]
       THEN /\ tasks' = Retire(tasks, t)
            /\ lastResult' = Result("start", t.g, "ok")
            /\ UNCHANGED <<gw, endPasses>>
       ELSE IF remainingTime(gw[t.g]) <= 0
       THEN LET S == ManagerEnd([Effects EXCEPT
                                   !.tasks = Move(tasks, t, [t EXCEPT !.pc = "uEnd"])],
                                t.g, "start") IN
            /\ Fits(S)
            /\ gw' = S.gw /\ endPasses' = S.endPasses
            /\ IF S.res = "pending"
               THEN tasks' = S.tasks /\ UNCHANGED lastResult
               ELSE tasks' = Retire(tasks, t) /\ lastResult' = Result("start", t.g, "ok")
       ELSE /\ tasks' = Move(tasks, t, [t EXCEPT !.pc = "uFetch"])
            /\ UNCHANGED <<gw, endPasses, lastResult>>
    /\ UNCHANGED <<sel, mgr, giveaways, writes, now, chan, msg, shown, ops, endRolls, endedEmits>>

\* the end() that _updateGiveaway() returned has settled: start() resolves
StartEnded(t) ==
    /\ t \in Suspended /\ t.kind = "start" /\ t.pc = "uEnd"
    /\ ~\E u \in Suspended : u.kind = "end" /\ u.g = t.g /\ u.api = "start"
    /\ tasks' = Retire(tasks, t)
    /\ lastResult' = Result("start", t.g, "ok")
    /\ UNCHANGED <<sel, mgr, giveaways, gw, storage, writes, now, chan, msg, shown, ops, counters>>

\* _updateGiveaway(): await giveaway.fetchMessage(); without a message the giveaway
\* is marked ended and the storage rewritten
StartUpdFetched(t) ==
    /\ t \in Suspended /\ t.kind = "start" /\ t.pc = "uFetch"
    /\ LET e == fetchedEntity(gw[t.g], msg[t.g]) IN
       /\ giveaways' = fetchedCollection(t.g)
       /\ writes' = fetchedWrites(t.g)
       /\ IF e.message
          THEN /\ gw' = [gw EXCEPT ![t.g] = e]
               /\ tasks' = Move(tasks, t, [t EXCEPT !.pc = "uChance"])
          ELSE /\ gw' = [gw EXCEPT ![t.g] = [e EXCEPT !.ended = TRUE]]
               /\ tasks' = Move(tasks, t, [t EXCEPT !.pc = "uDead",
                                                    !.content = Snapshot(giveaways', gw')])
    /\ UNCHANGED <<sel, mgr, storage, now, chan, msg, shown, ops, lastResult, counters>>

\* the awaited editGiveaway() of a giveaway without message completes: start() resolves
StartUpdDead(t) ==
    /\ t \in Suspended /\ t.kind = "start" /\ t.pc = "uDead"
    /\ storage' = Stored(t.content)
    /\ tasks' = Retire(tasks, t)
    /\ lastResult' = Result("start", t.g, "ok")
    /\ UNCHANGED <<sel, mgr, giveaways, gw, writes, now, chan, msg, shown, ops, counters>>

\* let chance = await giveaway.winningChance(); await this.updateServerRequirement(giveaway)
\* up to its first await
StartUpdChance(t) ==
    /\ t \in Suspended /\ t.kind = "start" /\ t.pc = "uChance"
    /\ IF gw[t.g].ended \/ ~chan[t.g]
       THEN /\ UpdateTail(t, Retire(tasks, t))
            /\ UNCHANGED <<gw, endPasses>>
       ELSE IF remainingTime(gw[t.g]) <= 0
       THEN LET S == ManagerEnd([Effects EXCEPT
                                   !.tasks = Move(tasks, t, [t EXCEPT !.pc = "sEnd"])],
                                t.g, "startS") IN
            /\ Fits(S)
            /\ gw' = S.gw /\ endPasses' = S.endPasses
            /\ IF S.res = "pending"
               THEN tasks' = S.tasks /\ UNCHANGED <<shown, lastResult>>
               ELSE UpdateTail(t, Retire(tasks, t))
       ELSE /\ tasks' = Move(tasks, t, [t EXCEPT !.pc = "sFetch"])
            /\ UNCHANGED <<gw, endPasses, shown, lastResult>>
    /\ UNCHANGED <<sel, mgr, giveaways, storage, writes, now, chan, msg, ops, endRolls, endedEmits>>

\* the end() that updateServerRequirement() returned has settled
StartReqEnded(t) ==
    /\ t \in Suspended /\ t.kind = "start" /\ t.pc = "sEnd"
    /\ ~\E u \in Suspended : u.kind = "end" /\ u.g = t.g /\ u.api = "startS"
    /\ UpdateTail(t, Retire(tasks, t))
    /\ UNCHANGED <<sel, mgr, giveaways, gw, storage, writes, now, chan, msg, ops, counters>>

---------------------------------------------------------------------------
(* The server requirement: updateServerRequirement(giveaway) inside start(),  *)
(* and the _updateServerRequirement() loop                                    *)

\* giveaway.serverslist = '' (the entity's own property; get data() reads
\* this.options.serverslist)
clearServers(e) == [e EXCEPT !.serverslist = <<>>]

\* giveaway.message.client.fetchInvite(...) throws a TypeError without a message
inviteThrows(e) == e.serverlink >= 1 /\ ~e.message

\* addserver(invite) / adderror(err): one line is appended
addLine(e, ok) == [e EXCEPT !.serverslist = Append(@, IF ok THEN "server" ELSE "warning")]

\* giveaway.serverlink.forEach(invitelink => fetchInvite(invitelink).then(addserver)
\* .catch(adderror)): one pending resolution for every link, none awaited
invites(e, g) ==
    SetToBag({[Task("req", g, "invite", "none") EXCEPT !.n = j] : j \in 0..(e.serverlink - 1)})

\* updateServerRequirement(): await giveaway.fetchMessage(); clear the list; ask for
\* the invites; await this.editGiveaway(...)
StartReqFetched(t) ==
    /\ t \in Suspended /\ t.kind = "start" /\ t.pc = "sFetch"
    /\ LET e == clearServers(fetchedEntity(gw[t.g], msg[t.g])) IN
       /\ giveaways' = fetchedCollection(t.g)
       /\ writes' = fetchedWrites(t.g)
       /\ gw' = [gw EXCEPT ![t.g] = e]
       /\ IF inviteThrows(e)
          THEN tasks' = Retire(tasks, t)
          ELSE LET u == [t EXCEPT !.pc = "sWrite", !.content = Snapshot(giveaways', gw')] IN
               /\ tasks' = Move(tasks, t, u) (+) invites(e, t.g)
               /\ BagCardinality(tasks') <= MaxTasks
    /\ UNCHANGED <<sel, mgr, storage, now, chan, msg, shown, ops, lastResult, counters>>

\* the awaited editGiveaway() completes; _updateGiveaway() goes on to its end
StartReqWritten(t) ==
    /\ t \in Suspended /\ t.kind = "start" /\ t.pc = "sWrite"
    /\ storage' = Stored(t.content)
    /\ UpdateTail(t, Retire(tasks, t))
    /\ UNCHANGED <<sel, mgr, giveaways, gw, writes, now, chan, msg, ops, counters>>

\* one entity of this.giveaways.forEach(...) in _updateServerRequirement()
requirementEach(S, g) ==
    IF S.gw[g].ended \/ ~chan[g] \/ S.gw[g].messageID = NIL THEN S
    ELSE [S EXCEPT !.tasks = Spawn(@, Task("req", g, "fetch", "none"))]

RECURSIVE requirementAll(_, _)
requirementAll(S, i) ==
    IF i > Len(giveaways) THEN S ELSE requirementAll(requirementEach(S, giveaways[i]), i + 1)

\* the 500 s interval and the 10 s timeout of _init(): _updateServerRequirement()
ReqTick ==
    /\ initPc = "done" /\ clientReady
    /\ ops < MaxOps /\ ops' = ops + 1
    /\ LET S == requirementAll(Effects, 1) IN
       /\ Fits(S) /\ S # Effects
       /\ tasks' = S.tasks
    /\ UNCHANGED <<sel, mgr, giveaways, gw, storage, writes, now, chan, msg, shown,
                   lastResult, counters>>

\* await giveaway.fetchMessage(); clear the list; ask for the invites;
\* await this.editGiveaway(...), after which nothing follows
ReqFetched(t) ==
    /\ t \in Suspended /\ t.kind = "req" /\ t.pc = "fetch"
    /\ LET e == clearServers(fetchedEntity(gw[t.g], msg[t.g])) IN
       /\ giveaways' = fetchedCollection(t.g)
       /\ gw' = [gw EXCEPT ![t.g] = e]
       /\ IF inviteThrows(e)
          THEN /\ tasks' = Retire(tasks, t)
               /\ writes' = fetchedWrites(t.g)
          ELSE /\ tasks' = Retire(tasks, t) (+) invites(e, t.g)
               /\ writes' = fetchedWrites(t.g) \cup {Snapshot(giveaways', gw')}
    /\ UNCHANGED <<sel, mgr, storage, now, chan, msg, shown, ops, lastResult, counters>>

\* fetchInvite(...).then(addserver).catch(adderror)
InviteResolved(t, ok) ==
    /\ t \in Suspended /\ t.kind = "req" /\ t.pc = "invite"
    /\ gw' = [gw EXCEPT ![t.g] = addLine(@, ok)]
    /\ tasks' = Retire(tasks, t)
    /\ UNCHANGED <<sel, mgr, giveaways, storage, writes, now, chan, msg, shown, ops,
                   lastResult, counters>>

---------------------------------------------------------------------------
(* The one-shot timer armed by _updateGiveaway() *)

\* setTimeout(() => this.end.call(this, giveaway.messageID), giveaway.remainingTime)
TimerFired(t) ==
    /\ t \in Suspended /\ t.kind = "timer" /\ now >= t.wake
    /\ LET S == ManagerEnd([Effects EXCEPT !.tasks = Retire(tasks, t)], t.g, "none") IN
       /\ gw' = S.gw /\ tasks' = S.tasks /\ endPasses' = S.endPasses
    /\ UNCHANGED <<sel, mgr, giveaways, storage, writes, now, chan, msg, shown, ops,
                   lastResult, endRolls, endedEmits>>

---------------------------------------------------------------------------
(* The fast tick: lastGiveaway(), every second *)

\* one entity of this.giveaways.forEach(...) in lastGiveaway(), up to its first await
lastGiveawayEach(S, g) ==
    IF S.gw[g].ended \/ ~chan[g] THEN S
    ELSE IF remainingTime(S.gw[g]) <= 0 THEN ManagerEnd(S, g, "none")
    ELSE IF S.gw[g].messageID = NIL THEN S
    ELSE [S EXCEPT !.tasks = Spawn(@, Task("fast", g, "fetch", "none"))]

RECURSIVE lastGiveawayAll(_, _)
lastGiveawayAll(S, i) ==
    IF i > Len(giveaways) THEN S ELSE lastGiveawayAll(lastGiveawayEach(S, giveaways[i]), i + 1)

\* setInterval(() => { if (this.client.readyAt) this.lastGiveaway() }, 1000):
\* one run of the callback that does something
lastGiveaway ==
    /\ initPc = "done" /\ clientReady
    /\ LET S == lastGiveawayAll(Effects, 1) IN
       /\ Fits(S) /\ S # Effects
       /\ gw' = S.gw /\ tasks' = S.tasks /\ endPasses' = S.endPasses
    /\ UNCHANGED <<sel, mgr, giveaways, storage, writes, now, chan, msg, shown,
                   lastResult, endRolls, endedEmits>>

\* a fast tick, counted as an operation
FastTick == ops < MaxOps /\ ops' = ops + 1 /\ lastGiveaway

\* if (giveaway.remainingTime < 4000) giveaway.threeSecondsRemaining = true
markFinal(e) ==
    IF remainingTime(e) < FinalCountdown THEN [e EXCEPT !.threeSecondsRemaining = TRUE] ELSE e

\* if (threeSecondsRemaining && !threeSecondsRemaining2): the animation is claimed
claims(e) == e.message /\ e.threeSecondsRemaining /\ ~e.threeSecondsRemaining2

\* await giveaway.fetchMessage(); mark the final countdown; claim the animation and
\* await this.editGiveaway(...)
FastFetched(t) ==
    /\ t \in Suspended /\ t.kind = "fast" /\ t.pc = "fetch"
    /\ LET e == markFinal(fetchedEntity(gw[t.g], msg[t.g])) IN
       /\ giveaways' = fetchedCollection(t.g)
       /\ writes' = fetchedWrites(t.g)
       /\ IF claims(e)
          THEN /\ gw' = [gw EXCEPT ![t.g] = [e EXCEPT !.threeSecondsRemaining2 = TRUE]]
               /\ tasks' = Move(tasks, t, [t EXCEPT !.pc = "aWrite",
                                                    !.content = Snapshot(giveaways', gw')])
          ELSE /\ gw' = [gw EXCEPT ![t.g] = e]
               /\ tasks' = Retire(tasks, t)
    /\ UNCHANGED <<sel, mgr, storage, now, chan, msg, shown, ops, lastResult, counters>>

\* the next position of the animation from its n-th check of giveaway.ended:
\* not ended: the edit, after await embed(); ended: the next wait, or the end
afterCheck(t, n) ==
    IF ~gw[t.g].ended THEN {[t EXCEPT !.pc = "embed", !.n = n]}
    ELSE IF n = 3 THEN {}
    ELSE {[t EXCEPT !.pc = "wait", !.n = n + 1, !.wake = now + WaitStep]}

\* the awaited editGiveaway() completes: the first check of the animation
FastAnimWritten(t) ==
    /\ t \in Suspended /\ t.kind = "fast" /\ t.pc = "aWrite"
    /\ storage' = Stored(t.content)
    /\ tasks' = Retire(tasks, t) (+) SetToBag(afterCheck(t, 0))
    /\ UNCHANGED <<sel, mgr, giveaways, gw, writes, now, chan, msg, shown, ops,
                   lastResult, counters>>

\* await wait(1000) is over: the next check of the animation
FastWoke(t) ==
    /\ t \in Suspended /\ t.kind = "fast" /\ t.pc = "wait" /\ now >= t.wake
    /\ tasks' = Retire(tasks, t) (+) SetToBag(afterCheck(t, t.n))
    /\ UNCHANGED <<sel, mgr, giveaways, gw, storage, writes, now, chan, msg, shown, ops,
                   lastResult, counters>>

\* await embed() is over: giveaway.message.edit(...); after the third wait
\* this.end(...) follows, otherwise await wait(1000)
FastEmbedded(t) ==
    /\ t \in Suspended /\ t.kind = "fast" /\ t.pc = "embed"
    /\ shown' = [shown EXCEPT ![t.g] = "final"]
    /\ IF t.n = 3
       THEN LET S == ManagerEnd([Effects EXCEPT !.tasks = Retire(tasks, t)], t.g, "none") IN
            gw' = S.gw /\ tasks' = S.tasks /\ endPasses' = S.endPasses
       ELSE /\ tasks' = Move(tasks, t, [t EXCEPT !.pc = "wait", !.n = t.n + 1,
                                                 !.wake = now + WaitStep])
            /\ UNCHANGED <<gw, endPasses>>
    /\ UNCHANGED <<sel, mgr, giveaways, storage, writes, now, chan, msg, ops,
                   lastResult, endRolls, endedEmits>>

---------------------------------------------------------------------------
(* The countdown tick: _checkGiveaway(), every updateCountdownEvery *)

\* one entity of this.giveaways.forEach(...) in _checkGiveaway(), up to its first await
checkGiveawayEach(S, g) ==
    IF S.gw[g].ended \/ S.gw[g].threeSecondsRemaining \/ ~chan[g] THEN S
    ELSE IF remainingTime(S.gw[g]) <= 0 THEN ManagerEnd(S, g, "none")
    ELSE IF S.gw[g].messageID = NIL THEN S
    ELSE [S EXCEPT !.tasks = Spawn(@, Task("check", g, "fetch", "none"))]

RECURSIVE checkGiveawayAll(_, _)
checkGiveawayAll(S, i) ==
    IF i > Len(giveaways) THEN S
    ELSE checkGiveawayAll(checkGiveawayEach(S, giveaways[i]), i + 1)

\* setInterval(() => { if (this.client.readyAt) this._checkGiveaway() }, updateCountdownEvery):
\* one run of the callback that does something
checkGiveaway ==
    /\ initPc = "done" /\ clientReady
    /\ LET S == checkGiveawayAll(Effects, 1) IN
       /\ Fits(S) /\ S # Effects
       /\ gw' = S.gw /\ tasks' = S.tasks /\ endPasses' = S.endPasses
    /\ UNCHANGED <<sel, mgr, giveaways, storage, writes, now, chan, msg, shown,
                   lastResult, endRolls, endedEmits>>

\* a countdown tick, counted as an operation
CheckTick == ops < MaxOps /\ ops' = ops + 1 /\ checkGiveaway

\* giveaway.ended = true, for a giveaway whose message cannot be fetched
markEnded(e) == [e EXCEPT !.ended = TRUE]

\* await giveaway.fetchMessage(); without a message mark the giveaway ended and
\* rewrite the storage; otherwise let chance = await giveaway.winningChance()
CheckFetched(t) ==
    /\ t \in Suspended /\ t.kind = "check" /\ t.pc = "fetch"
    /\ LET e == fetchedEntity(gw[t.g], msg[t.g]) IN
       /\ giveaways' = fetchedCollection(t.g)
       /\ IF e.message
          THEN /\ gw' = [gw EXCEPT ![t.g] = e]
               /\ tasks' = Move(tasks, t, [t EXCEPT !.pc = "chance"])
               /\ writes' = fetchedWrites(t.g)
          ELSE /\ gw' = [gw EXCEPT ![t.g] = markEnded(e)]
               /\ tasks' = Retire(tasks, t)
               /\ writes' = fetchedWrites(t.g) \cup {Snapshot(giveaways', gw')}
    /\ UNCHANGED <<sel, mgr, storage, now, chan, msg, shown, ops, lastResult, counters>>

\* the refresh of the tick with the timer of _updateGiveaway() armed after the edit
CheckEditedArming(t) ==
    /\ t \in Suspended /\ t.kind = "check" /\ t.pc = "chance"
    /\ shown' = [shown EXCEPT ![t.g] = "countdown"]
    /\ tasks' = IF remainingTime(gw[t.g]) < UpdateCountdownEvery
                THEN Spawn(Retire(tasks, t), Timer(t.g)) ELSE Retire(tasks, t)
    /\ UNCHANGED <<sel, mgr, giveaways, gw, storage, writes, now, chan, msg, ops,
                   lastResult, counters>>

\* giveaway.message.edit(...) with the refreshed countdown
CheckEdited(t) ==
    /\ t \in Suspended /\ t.kind = "check" /\ t.pc = "chance"
    /\ shown' = [shown EXCEPT ![t.g] = "countdown"]
    /\ tasks' = Retire(tasks, t)
    /\ UNCHANGED <<sel, mgr, giveaways, gw, storage, writes, now, chan, msg, ops,
                   lastResult, counters>>

---------------------------------------------------------------------------
(* The 'raw' handler of the constructor: reaction events *)

\* a MESSAGE_REACTION_ADD / _REMOVE packet for message g: the handler returns unless
\* the giveaway is known and not ended, then awaits the member and the message
ReactionEvent(g, type, emojiMatches) ==
    /\ InCollection(g) /\ ~gw[g].ended
    /\ Room
    /\ ops < MaxOps /\ ops' = ops + 1
    /\ tasks' = IF emojiMatches THEN Spawn(tasks, Task("react", g, type, "none")) ELSE tasks
    /\ UNCHANGED <<sel, mgr, giveaways, gw, storage, writes, now, chan, msg, shown,
                   lastResult, counters>>

\* member and message are fetched: the entry signal is emitted (an emoji that does
\* not match leaves no trace)
ReactionHandled(t) ==
    /\ t \in Suspended /\ t.kind = "react"
    /\ tasks' = Retire(tasks, t)
    /\ lastResult' = IF msg[t.g] THEN Result("reaction", t.g, t.pc) ELSE lastResult
    /\ UNCHANGED <<sel, mgr, giveaways, gw, storage, writes, now, chan, msg, shown, ops, counters>>

---------------------------------------------------------------------------

Next ==
    \/ Tick
    \/ ClientReady
    \/ \E g \in IDs : MessageDeleted(g)
    \/ \E g \in IDs : ChannelLost(g)
    \/ \E w \in writes : WriteComplete(w)
    \/ InitExists
    \/ InitCreated
    \/ InitRead
    \/ InitFailed
    \/ \E g \in IDs : EndCall(g)
    \/ \E t \in Suspended : EndFetched(t)
    \/ \E t \in Suspended, winners \in 0..1 : EndRolled(t, winners) /\ UNCHANGED sel
    \/ \E t \in Suspended : EndThrew(t) /\ UNCHANGED sel
    \/ \E t \in Suspended : EndNoWinner(t) /\ UNCHANGED sel
    \/ \E g \in IDs, options \in EditOptions : EditCall(g, options)
    \/ \E t \in Suspended : EditFetched(t)
    \/ \E t \in Suspended : EditWritten(t)
    \/ \E g \in IDs : RerollCall(g)
    \/ \E t \in Suspended : RerollFetched(t)
    \/ \E t \in Suspended : RerollRolled(t) /\ UNCHANGED sel
    \/ \E t \in Suspended : RerollThrew(t)
    \/ \E g \in IDs, keep \in BOOLEAN : DeleteCall(g, keep)
    \/ \E t \in Suspended : DeleteFetched(t)
    \/ \E t \in Suspended : DeleteWritten(t)
    \/ \E o \in StartOptions : StartCall(o.channelOk, o.time, o.prize, o.winnerCount)
    \/ \E t \in Suspended : StartSent(t)
    \/ \E t \in Suspended : StartSaved(t)
    \/ \E t \in Suspended : StartEnded(t)
    \/ \E t \in Suspended : StartUpdFetched(t)
    \/ \E t \in Suspended : StartUpdDead(t)
    \/ \E t \in Suspended : StartUpdChance(t)
    \/ \E t \in Suspended : StartReqEnded(t)
    \/ \E t \in Suspended : StartReqFetched(t)
    \/ \E t \in Suspended : StartReqWritten(t)
    \/ ReqTick
    \/ \E t \in Suspended : ReqFetched(t)
    \/ \E t \in Suspended, ok \in BOOLEAN : InviteResolved(t, ok)
    \/ \E t \in Suspended : TimerFired(t)
    \/ FastTick
    \/ \E t \in Suspended : FastFetched(t)
    \/ \E t \in Suspended : FastAnimWritten(t)
    \/ \E t \in Suspended : FastWoke(t)
    \/ \E t \in Suspended : FastEmbedded(t)
    \/ CheckTick
    \/ \E t \in Suspended : CheckFetched(t)
    \/ \E t \in Suspended : CheckEdited(t)
    \/ \E g \in IDs, type \in {"giveawayReactionAdded", "giveawayReactionRemoved"},
          emojiMatches \in BOOLEAN : ReactionEvent(g, type, emojiMatches)
    \/ \E t \in Suspended : ReactionHandled(t)

Spec == Init /\ [][Next]_vars

---------------------------------------------------------------------------
(* The scheduler under fairness: the client connects, _init() completes, the  *)
(* two intervals keep firing and every awaited platform call answers.  No    *)
(* message is deleted and no channel is lost.  Winner selection may succeed  *)
(* or reject.                                                                *)

Scheduler ==
    \/ lastGiveaway /\ UNCHANGED ops
    \/ checkGiveaway /\ UNCHANGED ops

Startup == ClientReady \/ InitExists \/ InitCreated \/ InitRead \/ InitFailed

Answers ==
    \/ \E t \in Suspended : EndFetched(t)
    \/ \E t \in Suspended : EndNoWinner(t) /\ UNCHANGED sel
    \/ \E t \in Suspended : FastFetched(t)
    \/ \E t \in Suspended : FastAnimWritten(t)
    \/ \E t \in Suspended : FastWoke(t)
    \/ \E t \in Suspended : FastEmbedded(t)
    \/ \E t \in Suspended : CheckFetched(t)
    \/ \E t \in Suspended : CheckEdited(t)
    \/ \E w \in writes : WriteComplete(w)

Selected == \E t \in Suspended, winners \in 0..1 : EndRolled(t, winners) /\ UNCHANGED sel

LiveNext ==
    \/ Tick
    \/ Startup
    \/ Scheduler
    \/ Answers
    \/ Selected
    \/ \E t \in Suspended : EndThrew(t) /\ UNCHANGED sel
    \/ \E g \in IDs : EndCall(g)

LiveSpec ==
    /\ Init /\ [][LiveNext]_vars
    /\ WF_vars(Startup) /\ WF_vars(Scheduler) /\ WF_vars(Answers) /\ WF_vars(Selected)

---------------------------------------------------------------------------
(* Selection in detail: the manager holds one giveaway, users                *)
(* have reacted to its announcement, and end(), reroll() and winningChance() *)
(* run with the selection roll() computes from the reaction.                 *)

\* the manager is ready and holds one giveaway that was started in this run of
\* the program, for 1..MaxWinners winners, running or ended; its options carry
\* an exemptMembers predicate when the policy says so; the storage holds what
\* was last written
SelectInit ==
    /\ ready = TRUE
    /\ initPc = "done"
    /\ clientReady = FALSE
    /\ giveaways = <<"m1">>
    /\ reactors \in Reactions
    /\ policy \in Policies
    /\ \E n \in 1..MaxWinners, r \in {InitialRecord, EndedRecord} :
         gw = [g \in IDs |->
                 IF g = "m1"
                 THEN Giveaway([r EXCEPT !.winnerCount = n,
                                         !.exemptMembers = IF policy.exemptMembers = "record"
                                                           THEN "function" ELSE "undefined"])
                 ELSE NoGiveaway]
    /\ storage = Stored(Snapshot(giveaways, gw))
    /\ writes = {}
    /\ tasks = EmptyBag
    /\ now = 0
    /\ chan = [g \in IDs |-> TRUE]
    /\ msg = [g \in IDs |-> g = "m1"]
    /\ shown = [g \in IDs |-> IF g # "m1" THEN "none"
                              ELSE IF gw[g].ended THEN "ended" ELSE "giveaway"]
    /\ ops = 0
    /\ lastResult = Result("none", NIL, "none")
    /\ endPasses = [g \in IDs |-> 0]
    /\ endRolls = [g \in IDs |-> 0]
    /\ endedEmits = [g \in IDs |-> 0]
    /\ rolled = NotRolled
    /\ resolved = NotResolved
    /\ congrats = [g \in IDs |-> 0]
    /\ chance = NoChance

\* let winners = await this.roll() in end(), and what end() does with them:
\* with winners, the congratulation is sent and the promise resolves with them
EndSelected(t) ==
    \E r \in roll(reactors, policy, gw[t.g].winnerCount, 0, FALSE) :
       /\ r.status = "returned"
       /\ EndRolled(t, Len(r.winners))
       /\ rolled' = [by |-> "end", n |-> gw[t.g].winnerCount,
                     status |-> r.status, winners |-> r.winners]
       /\ IF Len(r.winners) > 0
          THEN /\ congrats' = [congrats EXCEPT ![t.g] = Cap(@)]
               /\ resolved' = [by |-> "end", t |-> "list", members |-> r.winners]
          ELSE UNCHANGED <<congrats, resolved>>
       /\ UNCHANGED <<reactors, policy, chance>>

\* roll() rejects inside end(): the manager's default exemptMembers failed
EndRejected(t) ==
    \E r \in roll(reactors, policy, gw[t.g].winnerCount, 0, FALSE) :
       /\ r.status = "rejected"
       /\ EndThrew(t)
       /\ rolled' = [by |-> "end", n |-> gw[t.g].winnerCount,
                     status |-> r.status, winners |-> r.winners]
       /\ UNCHANGED <<reactors, policy, resolved, congrats, chance>>

\* end() without winners: the no-winner edit, then resolve() without a value
EndEmpty(t) ==
    /\ EndNoWinner(t)
    /\ resolved' = [by |-> "end", t |-> "undefined", members |-> <<>>]
    /\ UNCHANGED <<reactors, policy, rolled, congrats, chance>>

\* let winners = await this.roll(options.winnerCount) in reroll(), on the copy;
\* resolve(winners) or resolve(new Array())
RerollSelected(t, n) ==
    \E r \in roll(reactors, policy, gw[t.g].winnerCount, n, TRUE) :
       /\ r.status = "returned"
       /\ RerollRolled(t)
       /\ rolled' = [by |-> "reroll", n |-> IF n = 0 THEN gw[t.g].winnerCount ELSE n,
                     status |-> r.status, winners |-> r.winners]
       /\ resolved' = [by |-> "reroll", t |-> "list", members |-> r.winners]
       /\ UNCHANGED <<reactors, policy, congrats, chance>>

Max(a, b) == IF a > b THEN a ELSE b

\* giveaway.winningChance(): min(1, winnerCount / max(1, eligibleCount)) as the
\* fraction num/den, over the candidates that pass the filters of selection,
\* a failing predicate counting as not exempt
winningChance(rs, pol, winnerCount) ==
    LET eligibleCount == Cardinality(eligible(rs, pol, TRUE)) IN
    [num |-> Min(winnerCount, Max(1, eligibleCount)), den |-> Max(1, eligibleCount)]

\* manager.winningChance(messageID)
WinningChance(g) ==
    /\ ready
    /\ ops < MaxOps
    /\ ops' = ops + 1
    /\ IF InCollection(g)
       THEN /\ chance' = winningChance(reactors, policy, gw[g].winnerCount)
            /\ lastResult' = Result("winningChance", g, "ok")
       ELSE /\ lastResult' = Result("winningChance", g, "NotFound")
            /\ UNCHANGED chance
    /\ UNCHANGED <<mgr, giveaways, gw, storage, writes, tasks, now, chan, msg, shown,
                   counters, reactors, policy, rolled, resolved, congrats>>

SelectNext ==
    \/ \E w \in writes : WriteComplete(w)
    \/ \E g \in IDs : EndCall(g)
    \/ \E t \in Suspended : EndFetched(t)
    \/ \E t \in Suspended : EndSelected(t)
    \/ \E t \in Suspended : EndRejected(t)
    \/ \E t \in Suspended : EndEmpty(t)
    \/ \E g \in IDs : RerollCall(g)
    \/ \E t \in Suspended : RerollFetched(t)
    \/ \E t \in Suspended, n \in 0..MaxWinners : RerollSelected(t, n)
    \/ \E g \in IDs : WinningChance(g)

SelectSpec == SelectInit /\ [][SelectNext]_vars

---------------------------------------------------------------------------
(* The round trip through the storage: the manager holds giveaways started   *)
(* in this run of the program, writes them, and the program is started       *)
(* again and reads them back.                                                *)

\* the manager is ready and holds up to two giveaways, each running or ended,
\* with or without an exemptMembers predicate in its options
RoundTripInit ==
    /\ ready = TRUE
    /\ initPc = "done"
    /\ clientReady = FALSE
    /\ giveaways \in {<<>>, <<"m1">>, <<"m2">>, <<"m1", "m2">>, <<"m2", "m1">>}
    /\ gw \in [IDs -> {Giveaway([InitialRecord EXCEPT !.messageID = g, !.ended = e,
                                                      !.endAt = a, !.winnerCount = n,
                                                      !.exemptMembers = x]) :
                         g \in IDs, e \in BOOLEAN, a \in {0, Duration},
                         n \in 1..MaxWinners, x \in {"function", "undefined"}}
                      \cup {NoGiveaway}]
    /\ \A g \in IDs : IF InCollection(g) THEN gw[g].messageID = g ELSE gw[g] = NoGiveaway
    /\ storage = Stored(<<>>)
    /\ writes = {}
    /\ tasks = EmptyBag
    /\ now = 0
    /\ chan = [g \in IDs |-> TRUE]
    /\ msg = [g \in IDs |-> InCollection(g)]
    /\ shown = [g \in IDs |-> IF ~InCollection(g) THEN "none"
                              ELSE IF gw[g].ended THEN "ended" ELSE "giveaway"]
    /\ ops = 0
    /\ lastResult = Result("none", NIL, "none")
    /\ endPasses = [g \in IDs |-> 0]
    /\ endRolls = [g \in IDs |-> 0]
    /\ endedEmits = [g \in IDs |-> 0]
    /\ reactors = NoReactions
    /\ policy = NoPolicy
    /\ rolled = NotRolled
    /\ resolved = NotResolved
    /\ congrats = [g \in IDs |-> 0]
    /\ chance = NoChance

\* await this.saveGiveaway(...): the whole collection is written
SaveAll ==
    /\ ready
    /\ storage' = Stored(Snapshot(giveaways, gw))
    /\ UNCHANGED <<sel, mgr, giveaways, gw, writes, tasks, now, chan, msg, shown, ops,
                   lastResult, counters>>

\* the program is started again: a new manager is constructed, and its _init()
\* is about to read the storage
Restart ==
    /\ ready
    /\ ready' = FALSE
    /\ initPc' = "exists"
    /\ giveaways' = <<>>
    /\ gw' = [g \in IDs |-> NoGiveaway]
    /\ UNCHANGED <<sel, clientReady, storage, writes, tasks, now, chan, msg, shown, ops,
                   lastResult, counters>>

RoundTripNext ==
    \/ SaveAll
    \/ Restart
    \/ InitExists
    \/ InitRead

RoundTripSpec == RoundTripInit /\ [][RoundTripNext]_vars

---------------------------------------------------------------------------
(* Properties of the lifecycle *)

\* the persisted fields of an entity other than serverslist
frozenFields(e) == <<e.messageID, e.startAt, e.endAt, e.ended, e.winnerCount, e.prize>>

\* C1: the ended flag is monotonic: in every step, of whatever operation, tick or
\* reaction event, a giveaway that is ended stays ended.
C1_EndedMonotonic == [][\A g \in IDs : gw[g].ended => gw'[g].ended]_vars

\* C1: an ended giveaway on which a later operation (a reroll) has run to its end
C1_Witness == \E g \in IDs : gw[g].ended /\ lastResult = Result("reroll", g, "ok")

\* C2: for every giveaway at most one invocation of end() passes the ended guard,
\* winner selection for the end runs at most once and 'giveawayEnded' is emitted at
\* most once, whatever the sources that invoke end() concurrently.
C2_EndsOnce ==
    \A g \in IDs : endPasses[g] <= 1 /\ endRolls[g] <= 1 /\ endedEmits[g] <= 1

\* C2: an end() invoked by the scheduler is still suspended when an explicit end call
\* on the same giveaway is turned away
C2_Witness ==
    \E t \in Suspended : /\ t.kind = "end" /\ t.api = "none" /\ endPasses[t.g] = 1
                         /\ lastResult = Result("end", t.g, "AlreadyEnded")

\* C3: once a giveaway is ended, no step changes any of its record fields other
\* than serverslist.
C3_FrozenOnceEnded ==
    [][\A g \in IDs : gw[g].ended => frozenFields(gw'[g]) = frozenFields(gw[g])]_vars

\* C4: an edit call on a giveaway of the collection that is ended fails with the
\* already-ended error, changes no entity, issues no write and leaves nothing
\* suspended that could do so later.
C4_EditAfterEnded ==
    [][\A g \in IDs, options \in EditOptions :
         (InCollection(g) /\ gw[g].ended /\ EditCall(g, options))
         => /\ lastResult' = Result("edit", g, "AlreadyEnded")
            /\ UNCHANGED <<gw, giveaways, storage, writes, tasks, shown>>]_vars

\* C4: an edit call on an ended giveaway has just been turned away
C4_Witness ==
    \E g \in IDs : InCollection(g) /\ gw[g].ended
                   /\ lastResult = Result("edit", g, "AlreadyEnded")

\* C5: an end call on a giveaway of the collection that is already ended fails with
\* the already-ended error and changes nothing: no entity field, no winner selection,
\* no signal, no edit of the announcement, no write, nothing left suspended.
C5_SecondEnd ==
    [][\A g \in IDs :
         (InCollection(g) /\ gw[g].ended /\ EndCall(g))
         => /\ lastResult' = Result("end", g, "AlreadyEnded")
            /\ UNCHANGED <<gw, giveaways, storage, writes, tasks, shown, msg, counters>>]_vars

\* C5: the first end has emitted its signal and a second end call has been turned away
C5_Witness ==
    \E g \in IDs : /\ InCollection(g) /\ endedEmits[g] = 1
                   /\ lastResult = Result("end", g, "AlreadyEnded")

\* a giveaway of the collection that is not ended and whose time is over, with its
\* channel in the cache and its message on the platform
Expired(g) ==
    /\ InCollection(g) /\ ~gw[g].ended /\ remainingTime(gw[g]) <= 0
    /\ chan[g] /\ msg[g]

\* C6: under the fair scheduler every expired giveaway is eventually ended, with
\* 'giveawayEnded' emitted.
C6_ExpiredIsEnded ==
    \A g \in IDs : Expired(g) ~> (gw[g].ended /\ endedEmits[g] > 0)

\* a positive number
Positive(v) == v.t = "number" /\ v.n > 0

\* a start call with these options is running
Starts(o) == StartCall(o.channelOk, o.time, o.prize, o.winnerCount)

\* C7: a start call of a ready manager on a valid channel whose time is not a
\* positive number, whose prize is empty or whose winnerCount is not a positive
\* number is rejected with a validation error: no entity is created, nothing is
\* posted, added to the collection or written.
C7_StartValidates ==
    [][\A o \in StartOptions :
         (/\ ready /\ o.channelOk
          /\ ~Positive(o.time) \/ o.prize = "" \/ ~Positive(o.winnerCount)
          /\ Starts(o))
         => /\ lastResult'.op = "start"
            /\ lastResult'.res \in {"InvalidTime", "InvalidPrize", "InvalidWinnerCount"}
            /\ UNCHANGED <<gw, giveaways, storage, writes, tasks, msg, shown>>]_vars

\* C8: a start call made before _init() has hydrated the collection is rejected
\* with the not-ready error and changes neither the collection nor the storage; a
\* start call is accepted only when every record of the storage has its entity.
C8_NotReady ==
    [][\A o \in StartOptions :
         Starts(o) =>
            IF initPc # "done"
            THEN /\ lastResult' = Result("start", NIL, "NotReady")
                 /\ UNCHANGED <<gw, giveaways, storage, writes, tasks, msg>>
            ELSE tasks' # tasks =>
                    \A i \in 1..Len(storage.docs) : gw[storage.docs[i].messageID].created]_vars

\* C8: a start call was turned away before the hydration, and a later one is under
\* way with the record of the storage hydrated into the collection
C8_Witness ==
    /\ lastResult = Result("start", NIL, "NotReady")
    /\ giveaways = <<"m1">> /\ gw["m1"].ended
    /\ \E t \in Suspended : t.kind = "start" /\ t.pc = "send"

\* C9: the entity an accepted start call creates has endAt = startAt + time,
\* winnerCount >= 1 and ended = false.
C9_AcceptedStart ==
    [][\A o \in StartOptions :
         (Starts(o) /\ tasks' # tasks)
         => /\ gw'[Fresh].endAt = gw'[Fresh].startAt + o.time.n
            /\ gw'[Fresh].winnerCount >= 1
            /\ ~gw'[Fresh].ended]_vars

\* C10: every giveaway of the collection has endAt >= startAt and winnerCount >= 1.
C10_RecordBounds ==
    \A i \in 1..Len(giveaways) :
        /\ gw[giveaways[i]].endAt >= gw[giveaways[i]].startAt
        /\ gw[giveaways[i]].winnerCount >= 1

\* the storage st holds a record of giveaway g
Persisted(st, g) == \E i \in 1..Len(st.docs) : st.docs[i].messageID = g

\* the start() call that created giveaway g resolves in this step
StartResolves(g) == lastResult' = Result("start", g, "ok") /\ lastResult' # lastResult

\* C11: start() posts, records the message id, appends, persists and resolves in
\* this order: every giveaway of the collection has a message id, and in the step
\* in which start() resolves its giveaway is in the collection and has its record
\* in the storage.
C11_StartOrder ==
    [][/\ \A i \in 1..Len(giveaways') : gw'[giveaways'[i]].messageID # NIL
       /\ \A g \in IDs :
            StartResolves(g) =>
               /\ \E i \in 1..Len(giveaways') : giveaways'[i] = g
               /\ Persisted(storage', g)]_vars

\* the delete() call on giveaway g resolves in this step
DeleteResolves(g) ==
    \E t \in Suspended : t.kind = "delete" /\ t.g = g /\ DeleteWritten(t)

\* a write of the storage that is in flight holds a record of giveaway g
InFlight(g) ==
    \/ \E w \in writes : \E i \in 1..Len(w) : w[i].messageID = g
    \/ \E t \in Suspended : \E i \in 1..Len(t.content) : t.content[i].messageID = g

\* C12: when delete() resolves, the giveaway is neither in the collection nor in
\* the storage, and no write that can still reach the storage holds its record: none
\* is in flight, and the giveaway never comes back into the collection that later
\* writes are taken from.
C12_DeletedIsGone ==
    [][\A g \in IDs :
         /\ DeleteResolves(g) => ~InCollection(g)' /\ ~Persisted(storage', g) /\ ~InFlight(g)'
         /\ (gw[g].messageID # NIL /\ ~InCollection(g)) => ~InCollection(g)']_vars

\* C13: a delete call on a giveaway of the collection is never rejected, whether or
\* not its message can be fetched: it goes on to remove the giveaway, and when it
\* resolves the giveaway is out of the collection and of the storage; the only
\* error a delete call reports is not-found.
C13_DeleteSwallows ==
    [][\A g \in IDs :
         /\ \A keep \in BOOLEAN :
              (InCollection(g) /\ DeleteCall(g, keep))
              => /\ lastResult' = lastResult
                 /\ \E t \in BagToSet(tasks') : t.kind = "delete" /\ t.g = g
         /\ DeleteResolves(g) => ~InCollection(g)' /\ ~Persisted(storage', g)
         /\ (lastResult' # lastResult /\ lastResult'.op = "delete")
            => lastResult'.res \in {"ok", "NotFound"}]_vars

\* a call of end, edit, reroll or delete with message id g is made in this step
CallOn(g) ==
    \/ EndCall(g)
    \/ RerollCall(g)
    \/ \E options \in EditOptions : EditCall(g, options)
    \/ \E keep \in BOOLEAN : DeleteCall(g, keep)

\* C14: end, edit, reroll and delete called with a message id that no giveaway of
\* the collection has are rejected with the not-found error; the step changes no
\* entity, not the collection, not the storage, emits no signal and leaves nothing
\* in flight.
C14_NotFound ==
    [][\A g \in IDs :
         (~InCollection(g) /\ CallOn(g))
         => /\ lastResult'.g = g /\ lastResult'.res = "NotFound"
            /\ lastResult'.op \in {"end", "edit", "reroll", "delete"}
            /\ UNCHANGED <<gw, giveaways, storage, writes, tasks, shown, msg, counters>>]_vars

\* C14: an end call on a giveaway that has left the collection (deleted, or pruned
\* with its message) has been answered not-found
C14_Witness ==
    \E g \in IDs : /\ gw[g].messageID = g /\ ~InCollection(g)
                   /\ lastResult = Result("end", g, "NotFound")

\* a step of a reroll: the call, or one of its continuations
RerollStep(g) ==
    \/ RerollCall(g)
    \/ \E t \in Suspended :
         t.g = g /\ (RerollFetched(t) \/ RerollRolled(t) \/ RerollThrew(t))

\* C15: a reroll call on a giveaway of the collection that is not ended fails with
\* the not-yet-ended error and does nothing else (no selection, no announcement, no
\* 'giveawayRerolled'); no step of any reroll changes `ended` or another field of
\* an entity.
C15_Reroll ==
    [][\A g \in IDs :
         /\ (InCollection(g) /\ ~gw[g].ended /\ RerollCall(g))
            => /\ lastResult' = Result("reroll", g, "NotYetEnded")
               /\ UNCHANGED <<gw, giveaways, storage, writes, tasks, shown, msg, counters>>
         /\ RerollStep(g) => gw' = gw]_vars

\* C15: one reroll of an ended giveaway has resolved and another one is under way
C15_Witness ==
    \E t \in Suspended : /\ t.kind = "reroll" /\ gw[t.g].ended /\ InCollection(t.g)
                         /\ lastResult = Result("reroll", t.g, "ok")

\* the candidates the last selection sampled from
Sampled == eligible(reactors, policy, rolled.by = "reroll")

NoRepeat(w) == \A i, j \in 1..Len(w) : w[i] = w[j] => i = j

\* C16: a winner selection for n >= 1 winners returns exactly min(n, eligibleCount)
\* members of the set it samples from, never more than n and none of them twice;
\* a selection that fails does so because a predicate failed, whatever the supply.
C16_SelectionSize ==
    /\ rolled.status = "returned"
       => /\ rolled.n >= 1
          /\ Len(rolled.winners) = Min(rolled.n, Cardinality(Sampled))
          /\ Len(rolled.winners) <= rolled.n
          /\ NoRepeat(rolled.winners)
          /\ \A i \in 1..Len(rolled.winners) : rolled.winners[i] \in Sampled
    /\ rolled.status = "rejected"
       => \E u \in candidates(reactors, policy) : reactors[u].exempt = "throws"

\* C16: a selection for two winners found one eligible candidate and returned it
C16_Witness ==
    /\ rolled.status = "returned" /\ rolled.n = 2
    /\ Cardinality(Sampled) = 1 /\ Len(rolled.winners) = 1

C18_PredicateFailOpen ==
    rolled.by # "none" =>
       /\ rolled.status = "returned"
       /\ \A u \in candidates(reactors, policy) :
            (policy.exemptMembers # "none" /\ reactors[u].exempt = "throws" /\ ~reactors[u].perm)
            => u \in Sampled

\* C19: an end() whose selection found nobody eligible resolves with an empty
\* list of winners, the announcement then states that there is no winner, no
\* congratulation is posted and the giveaway is ended; an end() whose selection
\* returned winners resolves with them and posts exactly one congratulation.
C19_EndAnswer ==
    \A g \in IDs :
       (resolved.by = "end" /\ rolled.by = "end" /\ lastResult = Result("end", g, "ok"))
       => IF Len(rolled.winners) = 0
          THEN /\ resolved.t = "list" /\ resolved.members = <<>>
               /\ shown[g] = "noWinner"
               /\ congrats[g] = 0
               /\ gw[g].ended
          ELSE /\ resolved.t = "list" /\ resolved.members = rolled.winners
               /\ shown[g] = "ended"
               /\ congrats[g] = 1
               /\ gw[g].ended

EntrySignal(g) ==
    \E t \in Suspended : /\ t.kind = "react" /\ t.g = g /\ ReactionHandled(t)
                         /\ lastResult' = Result("reaction", g, t.pc)

\* a step of the handler of reaction events
ReactionStep ==
    \/ \E g \in IDs, type \in {"giveawayReactionAdded", "giveawayReactionRemoved"},
          emojiMatches \in BOOLEAN : ReactionEvent(g, type, emojiMatches)
    \/ \E t \in Suspended : ReactionHandled(t)

\* C21: an entry signal is raised only for a giveaway that is not ended at the
\* moment the signal is raised, and only an event for a giveaway of the collection
\* that is not ended gets as far as fetching the member and the message;
\* handling a reaction event changes no entity, nor the collection, nor the store.
C21_EntrySignals ==
    [][/\ \A g \in IDs :
            /\ EntrySignal(g) => ~gw[g].ended
            /\ (\E t \in BagToSet(tasks') :
                  t.kind = "react" /\ t.g = g /\ CopiesIn(t, tasks') > CopiesIn(t, tasks))
               => InCollection(g) /\ ~gw[g].ended
       /\ ReactionStep => UNCHANGED <<gw, giveaways, storage, writes>>]_vars

\* C22: what a write puts in the store equals, field for field and in the same
\* order, the data projection of the entities written, the exemptMembers
\* predicate included; the entities hydrated from a store have, in the same
\* order, the data that the store holds.
C22_RoundTrip ==
    [][/\ SaveAll =>
            /\ Len(storage'.docs) = Len(giveaways)
            /\ \A i \in 1..Len(giveaways) : storage'.docs[i] = data(gw[giveaways[i]])
       /\ InitRead =>
            /\ Len(giveaways') = Len(storage.docs)
            /\ \A i \in 1..Len(giveaways') : data(gw'[giveaways'[i]]) = storage.docs[i]]_vars

\* C23: at startup an absent storage file is created as an empty array and the
\* collection is empty once _init() is through; with a malformed storage file
\* no entity is hydrated, no tick of the three loops runs and the manager never
\* becomes ready.
C23_Startup ==
    [][/\ InitCreated => storage' = Stored(<<>>) /\ giveaways' = <<>> /\ ready'
       /\ storage.state = "malformed"
          => /\ ~ready' /\ initPc' # "done"
             /\ giveaways' = <<>> /\ \A g \in IDs : ~gw'[g].created
             /\ ~(FastTick \/ CheckTick \/ ReqTick)
             /\ storage' = storage]_vars

\* C23: reading the malformed file has failed, the client is connected and time
\* has passed
C23_Witness ==
    storage.state = "malformed" /\ initPc = "failed" /\ clientReady /\ now = MaxTime

\* C24: end() on a giveaway of the collection that is not ended fails with the
\* channel error when the channel cannot be resolved, and with the message error
\* whenever the announcement is gone when end() fetches it, a message handle
\* cached by an earlier fetch notwithstanding; in both cases no selection runs
\* and 'giveawayEnded' is not emitted.
C24_EndErrors ==
    [][\A g \in IDs :
         /\ (InCollection(g) /\ ~gw[g].ended /\ ~chan[g] /\ EndCall(g))
            => /\ lastResult' = Result("end", g, "ChannelUnavailable")
               /\ UNCHANGED <<tasks, counters>>
         /\ \A t \in Suspended :
              (t.kind = "end" /\ t.api = "end" /\ t.g = g /\ InCollection(g) /\ ~msg[g]
                 /\ EndFetched(t))
              => /\ lastResult' = Result("end", g, "MessageNotFound")
                 /\ ~\E u \in BagToSet(tasks') : u.kind = "end" /\ u.g = g
                 /\ UNCHANGED <<endRolls, endedEmits>>]_vars

\* C25: no interleaving of writes loses an update: when a write to the storage
\* completes and after it no operation is suspended and no other write is in
\* flight, the storage holds the data of the giveaways of the collection as
\* they are in memory.
C25_StoreConsistent ==
    [][((\E w \in writes : WriteComplete(w)) /\ writes' = {} /\ Suspended = {})
       => storage' = Stored(Snapshot(giveaways, gw))]_vars

\* C26: the three loops run only once the initial hydration is complete: whenever
\* the fast tick, the countdown tick or the requirement tick runs, _init() has
\* finished and every record of the storage has its Entity.
C26_LoopsAfterHydration ==
    [][(FastTick \/ CheckTick \/ ReqTick)
       => /\ initPc = "done" /\ ready
          /\ \A i \in 1..Len(storage.docs) : gw[storage.docs[i].messageID].created]_vars

C26_Witness ==
    /\ \E t \in Suspended : t.kind \in {"fast", "check", "req"} /\ t.g = "m1"
    /\ Len(storage.docs) = 1 /\ storage.docs[1].messageID = "m1"

\* C27: the fast tick starts the final countdown at most once for an Entity, also
\* when fast ticks overlap: it claims the animation only for an Entity that is not
\* ended, has less than the final-countdown threshold remaining, has not been
\* claimed before and has no animation running; a claimed Entity stays claimed.
C27_FinalCountdownOnce ==
    [][\A g \in IDs :
         LET started == \E u \in BagToSet(tasks') :
                           /\ u.kind = "fast" /\ u.g = g /\ u.pc = "aWrite"
                           /\ CopiesIn(u, tasks') > CopiesIn(u, tasks)
             running == {u \in Suspended : /\ u.kind = "fast" /\ u.g = g
                                           /\ u.pc \in {"aWrite", "embed", "wait"}}
         IN  /\ started => /\ ~gw[g].ended
                           /\ remainingTime(gw[g]) < FinalCountdown
                           /\ ~gw[g].threeSecondsRemaining2
                           /\ running = {}
             /\ gw[g].threeSecondsRemaining2 => gw'[g].threeSecondsRemaining2]_vars

\* C28: the countdown tick acts only on Entities that are not ended and not in the
\* final countdown: for such an Entity (its channel known) an expired one is ended
\* and any other gets its refresh; for an Entity that is ended or in the final
\* countdown the tick neither calls end() nor refreshes, and the edit of a refresh
\* never lands on an Entity that is ended or in the final countdown.
C28_CountdownTick ==
    [][/\ CheckTick =>
            \A g \in IDs :
               LET spawned(kind) == \E u \in BagToSet(tasks') :
                                       /\ u.kind = kind /\ u.g = g
                                       /\ CopiesIn(u, tasks') > CopiesIn(u, tasks)
               IN  IF InCollection(g) /\ ~gw[g].ended /\ ~gw[g].threeSecondsRemaining
                   THEN chan[g] => IF remainingTime(gw[g]) <= 0
                                   THEN gw'[g].ended /\ endPasses'[g] # endPasses[g]
                                   ELSE spawned("check")
                   ELSE /\ ~spawned("check") /\ ~spawned("end")
                        /\ endPasses'[g] = endPasses[g] /\ gw'[g] = gw[g]
       /\ \A t \in Suspended :
            (t.kind = "check" /\ t.pc = "chance" /\ CheckEdited(t))
            => ~gw[t.g].ended /\ ~gw[t.g].threeSecondsRemaining]_vars

\* C29 as stated: whenever the countdown tick refreshes an Entity that is not ended
\* and not expired and has less than one tick period remaining, it arms a timer
\* that calls end() for it.
C29_TickArmsTimer ==
    [][\A t \in Suspended :
         (/\ t.kind = "check" /\ t.pc = "chance" /\ CheckEdited(t)
          /\ ~gw[t.g].ended
          /\ remainingTime(gw[t.g]) > 0
          /\ remainingTime(gw[t.g]) < UpdateCountdownEvery)
         => \E u \in BagToSet(tasks') :
               /\ u.kind = "timer" /\ u.g = t.g
               /\ CopiesIn(u, tasks') > CopiesIn(u, tasks)]_vars

\* C29, amended: no step of the countdown tick arms a timer; a timer is armed only
\* by the refresh that ends a start(), for a giveaway with less than one update
\* period remaining, and it is set to the giveaway's endAt.
C29_TimerOnlyFromStart ==
    [][\A g \in IDs :
         LET armed == {u \in BagToSet(tasks') :
                          /\ u.kind = "timer" /\ u.g = g
                          /\ CopiesIn(u, tasks') > CopiesIn(u, tasks)}
         IN  /\ armed # {}
                => /\ \E t \in Suspended :
                         /\ t.kind = "start" /\ t.g = g
                         /\ CopiesIn(t, tasks') < CopiesIn(t, tasks)
                   /\ remainingTime(gw[g]) < UpdateCountdownEvery
                   /\ \A u \in armed : u.wake = gw[g].endAt
             /\ (CheckTick \/ \E t \in Suspended : CheckFetched(t) \/ CheckEdited(t))
                => armed = {}]_vars

C29_Witness ==
    /\ shown["m1"] = "countdown" /\ ~gw["m1"].ended
    /\ remainingTime(gw["m1"]) > 0 /\ remainingTime(gw["m1"]) < UpdateCountdownEvery
    /\ ~\E u \in Suspended : u.kind = "timer"
    /\ storage.docs # <<>>

\* C30: once the requirement tick has refreshed a giveaway that is not ended and
\* has a server requirement, its invites are resolved and nothing is in flight
\* any more, the record of the giveaway in the storage carries the resolved
\* requirement text as its serverslist.
C30_RequirementPersisted ==
    \A g \in IDs :
       (/\ InCollection(g) /\ ~gw[g].ended
        /\ gw[g].serverlink >= 1 /\ gw[g].serverslist # <<>>
        /\ Suspended = {} /\ writes = {})
       => \E i \in 1..Len(storage.docs) :
             /\ storage.docs[i].messageID = g
             /\ storage.docs[i].serverslist = gw[g].serverslist

---------------------------------------------------------------------------
(* Requirement resolution on its own: one giveaway with 0..MaxLinks invite   *)
(* links, refreshed by the requirement tick                                  *)

ResolveInit ==
    /\ ready = TRUE
    /\ initPc = "done"
    /\ clientReady = TRUE
    /\ giveaways = <<"m1">>
    /\ \E k \in 0..MaxLinks :
          gw = [g \in IDs |-> IF g = "m1" THEN Giveaway([InitialRecord EXCEPT !.serverlink = k])
                              ELSE NoGiveaway]
    /\ storage = Stored(Snapshot(giveaways, gw))
    /\ writes = {}
    /\ tasks = EmptyBag
    /\ now = 0
    /\ chan = [g \in IDs |-> TRUE]
    /\ msg = [g \in IDs |-> g = "m1"]
    /\ shown = [g \in IDs |-> IF g = "m1" THEN "giveaway" ELSE "none"]
    /\ ops = 0
    /\ lastResult = Result("none", NIL, "none")
    /\ endPasses = [g \in IDs |-> 0]
    /\ endRolls = [g \in IDs |-> 0]
    /\ endedEmits = [g \in IDs |-> 0]
    /\ reactors = NoReactions
    /\ policy = NoPolicy
    /\ rolled = NotRolled
    /\ resolved = NotResolved
    /\ congrats = [g \in IDs |-> 0]
    /\ chance = NoChance

ResolveNext ==
    \/ ReqTick
    \/ \E t \in Suspended : ReqFetched(t)
    \/ \E t \in Suspended, ok \in BOOLEAN : InviteResolved(t, ok)
    \/ \E w \in writes : WriteComplete(w)

ResolveSpec == ResolveInit /\ [][ResolveNext]_vars

\* C31: every link that resolves gives one requirement line, all the links that
\* fail give one warning line between them, and no failure stops the others:
\* the list never holds two warning lines, and once no resolution is pending it
\* holds either a requirement line for every link, or fewer and the warning.
C31_OneWarning ==
    \A g \in IDs :
       LET lines(x) == Cardinality({i \in 1..Len(gw[g].serverslist) : gw[g].serverslist[i] = x})
       IN  (/\ InCollection(g) /\ ops = 1
            /\ ~\E t \in Suspended : t.kind = "req" /\ t.g = g /\ t.pc = "fetch")
           => /\ lines("warning") <= 1
              /\ (~\E t \in Suspended : t.kind = "req" /\ t.g = g)
                 => \/ lines("server") = gw[g].serverlink /\ lines("warning") = 0
                    \/ lines("server") < gw[g].serverlink /\ lines("warning") = 1

---------------------------------------------------------------------------
(* The fast tick and the countdown tick over two running giveaways, each of  *)
(* which may have lost its channel or its announcement                       *)

TickInit ==
    /\ ready = TRUE
    /\ initPc = "done"
    /\ clientReady = TRUE
    /\ giveaways = <<"m1", "m2">>
    /\ gw = [g \in IDs |-> Giveaway([InitialRecord EXCEPT !.messageID = g])]
    /\ storage = Stored(Snapshot(giveaways, gw))
    /\ writes = {}
    /\ tasks = EmptyBag
    /\ now = 0
    /\ chan \in [IDs -> BOOLEAN]
    /\ msg \in [IDs -> BOOLEAN]
    /\ shown = [g \in IDs |-> "giveaway"]
    /\ ops = 0
    /\ lastResult = Result("none", NIL, "none")
    /\ endPasses = [g \in IDs |-> 0]
    /\ endRolls = [g \in IDs |-> 0]
    /\ endedEmits = [g \in IDs |-> 0]
    /\ reactors = NoReactions
    /\ policy = NoPolicy
    /\ rolled = NotRolled
    /\ resolved = NotResolved
    /\ congrats = [g \in IDs |-> 0]
    /\ chance = NoChance

TickNext ==
    \/ FastTick
    \/ CheckTick
    \/ \E t \in Suspended : FastFetched(t)
    \/ \E t \in Suspended : CheckFetched(t)
    \/ \E t \in Suspended : CheckEdited(t)
    \/ \E w \in writes : WriteComplete(w)

TickSpec == TickInit /\ [][TickNext]_vars

\* C32: a tick skips an Entity whose channel is unknown and still starts its work
\* on every other Entity; a tick whose fetch finds the announcement gone removes
\* the Entity from the collection and issues the rewrite of the storage without
\* it, and stops no other operation and no loop; and once nothing is in flight
\* the storage holds no record of an Entity that was removed from the collection.
C32_TickFailures ==
    [][/\ \A g \in IDs :
            LET spawned(kind) == \E u \in BagToSet(tasks') :
                                    /\ u.kind = kind /\ u.g = g
                                    /\ CopiesIn(u, tasks') > CopiesIn(u, tasks)
            IN  /\ FastTick =>
                      IF InCollection(g) /\ ~gw[g].ended /\ chan[g]
                      THEN spawned("fast")
                      ELSE ~spawned("fast") /\ gw'[g] = gw[g]
                /\ CheckTick =>
                      IF /\ InCollection(g) /\ ~gw[g].ended
                         /\ ~gw[g].threeSecondsRemaining /\ chan[g]
                      THEN spawned("check")
                      ELSE ~spawned("check") /\ gw'[g] = gw[g]
       /\ \A t \in Suspended :
            (t.pc = "fetch" /\ ~msg[t.g] /\ (FastFetched(t) \/ CheckFetched(t)))
            => /\ giveaways' = Without(giveaways, t.g)
               /\ Snapshot(giveaways', gw') \in writes'
               /\ tasks' = Retire(tasks, t)
               /\ UNCHANGED mgr
       /\ (tasks' = EmptyBag /\ writes' = {})
          => \A g \in IDs :
                (\A i \in 1..Len(giveaways') : giveaways'[i] # g)
                => \A i \in 1..Len(storage'.docs) : storage'.docs[i].messageID # g]_vars

\* C33: a successful end() is ordered: when 'giveawayEnded' is emitted for a
\* giveaway, and when its announcement is edited to the final embed, the Entity
\* is ended and the record of the giveaway in the storage already has
\* ended = true.
C33_PersistBeforeSignal ==
    [][\A g \in IDs :
         (\/ endedEmits'[g] # endedEmits[g]
          \/ shown'[g] # shown[g] /\ shown'[g] \in {"ended", "noWinner"})
         => /\ gw[g].ended
            /\ \A i \in 1..Len(storage'.docs) :
                  storage'.docs[i].messageID = g => storage'.docs[i].ended]_vars

\* C34: once end() has put the final embed on the announcement of a giveaway, no
\* refresh of the countdown tick and no step of the final-countdown animation
\* edits that announcement any more.
C34_LastEditWins ==
    [][\A t \in Suspended :
         (/\ shown[t.g] \in {"ended", "noWinner"}
          /\ \/ t.kind = "check" /\ t.pc = "chance" /\ CheckEdited(t)
             \/ t.kind = "fast" /\ t.pc = "embed" /\ FastEmbedded(t))
         => shown'[t.g] = shown[t.g]]_vars

---------------------------------------------------------------------------
(* The schedulers against an edit that moves the deadline well beyond the    *)
(* final countdown                                                           *)

\* edit options that put endAt a whole duration later
ExtendOptions ==
    {[NoOpts EXCEPT !.addTime = Duration],
     [NoOpts EXCEPT !.setEndTimestamp = 2 * Duration]}

ExtendInit ==
    /\ ready = TRUE
    /\ initPc = "done"
    /\ clientReady = TRUE
    /\ giveaways = <<"m1">>
    /\ gw = [g \in IDs |-> IF g = "m1" THEN Giveaway(InitialRecord) ELSE NoGiveaway]
    /\ storage = Stored(Snapshot(giveaways, gw))
    /\ writes = {}
    /\ tasks = EmptyBag
    /\ now = 0
    /\ chan = [g \in IDs |-> TRUE]
    /\ msg = [g \in IDs |-> g = "m1"]
    /\ shown = [g \in IDs |-> IF g = "m1" THEN "giveaway" ELSE "none"]
    /\ ops = 0
    /\ lastResult = Result("none", NIL, "none")
    /\ endPasses = [g \in IDs |-> 0]
    /\ endRolls = [g \in IDs |-> 0]
    /\ endedEmits = [g \in IDs |-> 0]
    /\ reactors = NoReactions
    /\ policy = NoPolicy
    /\ rolled = NotRolled
    /\ resolved = NotResolved
    /\ congrats = [g \in IDs |-> 0]
    /\ chance = NoChance

ExtendNext ==
    \/ Tick
    \/ \E w \in writes : WriteComplete(w)
    \/ \E options \in ExtendOptions : EditCall("m1", options)
    \/ \E t \in Suspended : EditFetched(t)
    \/ \E t \in Suspended : EditWritten(t)
    \/ FastTick
    \/ \E t \in Suspended : FastFetched(t)
    \/ \E t \in Suspended : FastAnimWritten(t)
    \/ \E t \in Suspended : FastWoke(t)
    \/ \E t \in Suspended : FastEmbedded(t)
    \/ CheckTick
    \/ \E t \in Suspended : CheckFetched(t)
    \/ \E t \in Suspended : CheckEdited(t)
    \/ \E t \in Suspended : EndFetched(t)
    \/ \E t \in Suspended, winners \in 0..1 : EndRolled(t, winners) /\ UNCHANGED sel
    \/ \E t \in Suspended : EndNoWinner(t) /\ UNCHANGED sel

ExtendSpec == ExtendInit /\ [][ExtendNext]_vars

\* C35: the loops call end() for a giveaway only when its endAt is less than the
\* final-countdown threshold away, also after an edit has moved endAt; and an
\* Entity that is running with its endAt at least that far away is not in the
\* final countdown, so that the countdown tick goes on refreshing it.
C35_DeadlineIsEndAt ==
    [][\A g \in IDs :
         /\ (/\ \/ FastTick \/ CheckTick
                \/ \E t \in Suspended : FastEmbedded(t) \/ TimerFired(t)
             /\ gw'[g].ended /\ ~gw[g].ended)
            => remainingTime(gw[g]) < FinalCountdown
         /\ (/\ \E i \in 1..Len(giveaways') : giveaways'[i] = g
             /\ ~gw'[g].ended
             /\ gw'[g].endAt - now' >= FinalCountdown)
            => ~gw'[g].threeSecondsRemaining]_vars

\* C36: every call of end, edit, reroll and delete that has passed its guards
\* eventually settles: its operation is no longer suspended and the caller has
\* its answer.
C36_CallsSettle ==
    \A g \in IDs, api \in {"end", "edit", "reroll", "delete"} :
       (\E t \in Suspended : t.api = api /\ t.g = g)
       ~> (/\ ~\E t \in Suspended : t.api = api /\ t.g = g
           /\ lastResult.op = api /\ lastResult.g = g)

\* C37: an end() that fails leaves the Entity not ended: when end() is answered
\* with the channel error or the message error, and when the selection throws,
\* ended is false afterwards; and whenever an end() of a giveaway is over with
\* the Entity ended, its 'giveawayEnded' has been emitted.
C37_FailedEndUntouched ==
    [][\A g \in IDs :
         LET ending(bag) == {t \in BagToSet(bag) : t.kind = "end" /\ t.g = g}
         IN  /\ (/\ lastResult' # lastResult
                 /\ \E r \in {"ChannelUnavailable", "MessageNotFound"} :
                       lastResult' = Result("end", g, r))
                => ~gw'[g].ended
             /\ (\E t \in ending(tasks) : EndThrew(t)) => ~gw'[g].ended
             /\ (ending(tasks) # {} /\ ending(tasks') = {} /\ gw'[g].ended)
                => endedEmits'[g] > 0]_vars

====
